---- MODULE Spec2Model ----
(***************************************************************************)
(* Model of the batch orchestrator (ProjectAssistant.execute), the         *)
(* per-topic pipeline (ProjectAssistant.process_topic) and the retrying    *)
(* prompt stages of aipg/task_inference/task_inference.py.                 *)
(*                                                                         *)
(* Process 0 is the execute coroutine; processes 1..Len(topics) are the    *)
(* process_topic tasks that asyncio.gather runs concurrently.  A step of   *)
(* a process is the code between two await points: one model query with   *)
(* the parse of its reply, one retrieval lookup, one sandbox run, one      *)
(* save, together with the synchronous control flow that follows it.       *)
(***************************************************************************)
EXTENDS Integers, Sequences, FiniteSets, TLC

\* ---------------------------------------------------------------- bounds
MaxCorrectionAttempts == 3   \* largest project_correction_attempts explored
MaxBugFixAttempts == 3       \* largest bug_fix_attempts explored
KCandidates == 2             \* most candidates a lookup returns
MaxReplyLen == 3             \* most entries in a topic-extraction reply
MaxSaves == 3                \* most calls of RagService.save followed
MaxLines == 5                \* most lines of a markdown text given to parse_markdown_headers
MaxScores == 3               \* most elements of an array given to the ranking-score parser

\* ------------------------------------------------------ program constants
MaxParseAttempts == 3        \* for attempt in range(1, 4)
SimilarityThreshold == 7     \* RagConfig.similarity_threshold = 0.7, in tenths
TimeoutExitCode == 124       \* exit code of a timed-out sandbox run

ScoreValues == {5, 7, 9}     \* scores in tenths: below, at and above the threshold

VARIABLES
    comments,           \* ProjectsAgentState.comments (code-review comments)
    topics,             \* ProjectsAgentState.topics
    topic2project,      \* ProjectsAgentState.topic2project
    cfgN,               \* AppConfig.project_correction_attempts
    cfgM,               \* AppConfig.bug_fix_attempts
    store,              \* the retrieval store shared by the pipelines
    pc,                 \* position of every coroutine
    attempt,            \* attempt number of the running prompt stage
    msgs,               \* chat_prompt of the running prompt stage
    stageCalls,         \* calls of LLMClient.query made by the running prompt stage
    llmCalls,           \* calls of LLMClient.query made by a process_topic run
    sandboxRuns,        \* calls of PythonSandboxService.run_code
    docs,               \* documents parsed so far by the coroutine
    topic,              \* ProcessTopicAgentState.topic
    candidates,         \* ProcessTopicAgentState.candidates
    response,           \* local response of the running stage: the last reply that failed
    rankScores,         \* local scores of LLMRankerInference.transform, last parsed
    project,            \* ProcessTopicAgentState.project
    validation_result,  \* ProcessTopicAgentState.validation_result
    execution_result,   \* ProcessTopicAgentState.execution_result
    previous_version,   \* local previous_version of process_topic
    loopAttempt,        \* loop variable of the correction / bug-fix loop
    trace,              \* stages invoked so far, in order
    outcomes,           \* what each finished stage was answered, in order
    saveLog,            \* what each save call saw
    topics_value,       \* local topics_value of parse_define_topics (kept by ExtractTopics only)
    sandbox,            \* one call of PythonSandboxService.run_code and what it started
    collection,         \* ChromaDbAdapter.collection: the entries, in order of arrival
    saves,              \* the arguments of the calls of RagService.save made on it
    parser,             \* one call of a parser of prompting/utils.py: its input and its outcome
    error               \* the exception a coroutine ended with

vars == << comments, topics, topic2project, cfgN, cfgM, store, pc, attempt,
           msgs, stageCalls, llmCalls, sandboxRuns, docs, topic, candidates,
           response, rankScores, project, validation_result, execution_result, previous_version,
           loopAttempt, trace, outcomes, saveLog, topics_value, error,
           sandbox, collection, saves, parser >>

\* ------------------------------------------------------------ data model
Labels == <<"t1", "t2">>
Slots == 1..Len(Labels)
Procs == 0..Len(Labels)

NoProject == [owner |-> -1, n |-> 0, ph |-> FALSE]
Project(owner, n, ph) == [owner |-> owner, n |-> n, ph |-> ph]

Topic2Project(t, p) == [topic |-> t, project |-> p]

NoResult == [exit_code |-> -1, timed_out |-> FALSE, stderr |-> "none"]
SandboxResult(code, to, err) == [exit_code |-> code, timed_out |-> to, stderr |-> err]

\* mutation: the timeout branch reports exit code 0
TimedOutResult_exitZero == SandboxResult(0, TRUE, "")

\* the result of the except asyncio.TimeoutError branch of a runner
TimedOutResult == SandboxResult(TimeoutExitCode, TRUE, "")

\* what DockerPythonRunner.run / ComposeDockerRunner.run return
RunnerResults ==
    { SandboxResult(0, FALSE, "program"),
      SandboxResult(1, FALSE, "program"),
      TimedOutResult }

\* the entry the vector store holds before the batch starts
Stored1 == Topic2Project("s1", Project(0, 1, TRUE))
PreStored == { Stored1 }

NoError == [kind |-> "none", reply |-> 0]
ParseError(n) == [kind |-> "OutputParserException", reply |-> n]
OtherError(k) == [kind |-> k, reply |-> 0]

\* a reply of the model as the ranking stage sees it: whether it parses to a
\* list of scores, and the list; replies of the other stages either parse
\* or do not
NoReply == [parses |-> FALSE, scores |-> <<>>]

Message(role, kind, stage, n) == [role |-> role, kind |-> kind, stage |-> stage, n |-> n]

\* sequences of length 0..n over S
RECURSIVE SeqsUpTo(_, _)
SeqsUpTo(S, n) ==
    IF n = 0 THEN { <<>> }
    ELSE LET shorter == SeqsUpTo(S, n - 1)
         IN shorter \cup { Append(s, x) : s \in { t \in shorter : Len(t) = n - 1 }, x \in S }

Range(s) == { s[k] : k \in 1..Len(s) }
Distinct(s) == \A a, b \in 1..Len(s) : s[a] = s[b] => a = b


\* ------------------------------------------------------------- run state
\* the state of one coroutine, gathered so that the control flow of
\* process_topic can be written as functions from state to state
Frame(p) ==
    [ pc |-> pc[p], attempt |-> attempt[p], msgs |-> msgs[p],
      stageCalls |-> stageCalls[p], llmCalls |-> llmCalls[p],
      sandboxRuns |-> sandboxRuns[p], docs |-> docs[p], topic |-> topic[p],
      candidates |-> candidates[p], response |-> response[p],
      rankScores |-> rankScores[p], project |-> project[p],
      validation_result |-> validation_result[p],
      execution_result |-> execution_result[p],
      previous_version |-> previous_version[p],
      loopAttempt |-> loopAttempt[p], trace |-> trace[p],
      outcomes |-> outcomes[p], error |-> error[p] ]

Frames == [p \in Procs |-> Frame(p)]

CommitAll(F) ==
    /\ pc' = [p \in Procs |-> F[p].pc]
    /\ attempt' = [p \in Procs |-> F[p].attempt]
    /\ msgs' = [p \in Procs |-> F[p].msgs]
    /\ stageCalls' = [p \in Procs |-> F[p].stageCalls]
    /\ llmCalls' = [p \in Procs |-> IF p = 0 THEN 0 ELSE F[p].llmCalls]
    /\ sandboxRuns' = [p \in Procs |-> F[p].sandboxRuns]
    /\ docs' = [p \in Procs |-> F[p].docs]
    /\ topic' = [p \in Procs |-> F[p].topic]
    /\ candidates' = [p \in Procs |-> F[p].candidates]
    /\ response' = [p \in Procs |-> F[p].response]
    /\ rankScores' = [p \in Procs |-> F[p].rankScores]
    /\ project' = [p \in Procs |-> F[p].project]
    /\ validation_result' = [p \in Procs |-> F[p].validation_result]
    /\ execution_result' = [p \in Procs |-> F[p].execution_result]
    /\ previous_version' = [p \in Procs |-> F[p].previous_version]
    /\ loopAttempt' = [p \in Procs |-> F[p].loopAttempt]
    /\ trace' = [p \in Procs |-> F[p].trace]
    /\ outcomes' = [p \in Procs |-> F[p].outcomes]
    /\ error' = [p \in Procs |-> F[p].error]

\* the coroutine p moves to frame f, the others stay where they are
Commit(p, f) ==
    /\ pc' = [pc EXCEPT ![p] = f.pc]
    /\ attempt' = [attempt EXCEPT ![p] = f.attempt]
    /\ msgs' = [msgs EXCEPT ![p] = f.msgs]
    /\ stageCalls' = [stageCalls EXCEPT ![p] = f.stageCalls]
    /\ llmCalls' = [llmCalls EXCEPT ![p] = IF p = 0 THEN 0 ELSE f.llmCalls]
    /\ sandboxRuns' = [sandboxRuns EXCEPT ![p] = f.sandboxRuns]
    /\ docs' = [docs EXCEPT ![p] = f.docs]
    /\ topic' = [topic EXCEPT ![p] = f.topic]
    /\ candidates' = [candidates EXCEPT ![p] = f.candidates]
    /\ response' = [response EXCEPT ![p] = f.response]
    /\ rankScores' = [rankScores EXCEPT ![p] = f.rankScores]
    /\ project' = [project EXCEPT ![p] = f.project]
    /\ validation_result' = [validation_result EXCEPT ![p] = f.validation_result]
    /\ execution_result' = [execution_result EXCEPT ![p] = f.execution_result]
    /\ previous_version' = [previous_version EXCEPT ![p] = f.previous_version]
    /\ loopAttempt' = [loopAttempt EXCEPT ![p] = f.loopAttempt]
    /\ trace' = [trace EXCEPT ![p] = f.trace]
    /\ outcomes' = [outcomes EXCEPT ![p] = f.outcomes]
    /\ error' = [error EXCEPT ![p] = f.error]

\* ProcessTopicAgentState(topic=topic) and the locals of a task not yet started
FreshFrame(t) ==
    [ pc |-> "unborn", attempt |-> 0, msgs |-> <<>>, stageCalls |-> 0,
      llmCalls |-> 0, sandboxRuns |-> 0, docs |-> 0, topic |-> t,
      candidates |-> <<>>, response |-> NoReply, rankScores |-> <<>>, project |-> NoProject,
      validation_result |-> "none",
      execution_result |-> NoResult, previous_version |-> NoProject,
      loopAttempt |-> 0, trace |-> <<>>, outcomes |-> <<>>, error |-> NoError ]

\* ------------------------------------------------------- the retry wrapper
\* PromptGenerator.generate_chat_prompt: a fresh (system, user) pair
GenerateChatPrompt(stage) ==
    << Message("system", "system_prompt", stage, 0),
       Message("user", "prompt", stage, 0) >>

\* mutation: the corrective instruction is appended before the failed reply
ExtendPrompt_swapped(m, stage, reply) ==
    m \o << Message("user", "corrective", stage, reply),
            Message("assistant", "reply", stage, reply) >>

\* chat_prompt.extend([assistant: response, user: error feedback])
ExtendPrompt(m, stage, reply) ==
    m \o << Message("assistant", "reply", stage, reply),
            Message("user", "corrective", stage, reply) >>

\* a transform that queries the model is entered: the prompt is built
Enter(f, position, stage) ==
    [f EXCEPT !.pc = position, !.attempt = 1,
              !.msgs = GenerateChatPrompt(stage),
              !.stageCalls = 0, !.response = NoReply,
              !.trace = Append(@, stage)]

\* a transform or port call that does not query the model is entered
EnterPlain(f, position, stage) ==
    [f EXCEPT !.pc = position, !.attempt = 0, !.msgs = <<>>,
              !.stageCalls = 0, !.response = NoReply, !.trace = Append(@, stage)]

\* response = await self.llm.query(chat_prompt)
Queried(f) == [f EXCEPT !.llmCalls = @ + 1, !.stageCalls = @ + 1]

\* the except OutputParserException branch and the for-else that follows
\* the last attempt
ParseFailed(f, stage) ==
    LET q == Queried(f)
        extended == [q EXCEPT !.msgs = ExtendPrompt(f.msgs, stage, q.stageCalls)]
    IN IF f.attempt < MaxParseAttempts
       THEN [extended EXCEPT !.attempt = @ + 1]
       ELSE [extended EXCEPT !.pc = "raised", !.error = ParseError(q.stageCalls)]

\* llm.query itself raises (transport error after its own retries): the
\* exception is not an OutputParserException and leaves the transform
QueryRaised(f) ==
    [Queried(f) EXCEPT !.pc = "raised", !.error = OtherError("TransportError")]

\* the transform returns: its chat_prompt goes out of scope
Parsed(f) ==
    [Queried(f) EXCEPT !.attempt = 0, !.msgs = <<>>, !.stageCalls = 0,
                       !.response = NoReply]

\* history: the answer the collaborator gave to the stage that just finished
Answered(f, what) == [f EXCEPT !.outcomes = Append(@, what)]

\* the document parse_project_markdown builds from a reply
NewDocument(p, f, ph) == Project(p, f.docs + 1, ph)

\* ----------------------------------------------- process_topic control flow
HasProject(f) == f.project # NoProject
IsValid(f) == f.validation_result = "valid"
Failing(r) == r.exit_code # 0 \/ r.timed_out
Passing(r) == r.exit_code = 0 /\ ~r.timed_out

\* mutation: the validator also empties the candidate list
ValidatorResult_dropsCandidates(f, v) ==
    [Answered(Parsed(f), v) EXCEPT !.validation_result = v, !.candidates = <<>>]

\* ProjectValidatorInference.transform, lines 343-347: the reply parsed to
\* the verdict v; state.validation_result is assigned and the loop is left
ValidatorResult(f, v) ==
    [Answered(Parsed(f), v) EXCEPT !.validation_result = v]

\* CheckUserSolutionSandboxInference.transform with the sandbox answering r
CheckUserSolution(f, r) ==
    IF HasProject(f)
    THEN [f EXCEPT !.execution_result = r, !.sandboxRuns = @ + 1]
    ELSE f

\* mutation: the fixed project is kept without running its autotest
AfterBugFix_skipsAutotest(f) ==
    IF HasProject(f) /\ IsValid(f)
    THEN EnterPlain(f, "save", "SAVE")
    ELSE [f EXCEPT !.pc = "returned", !.attempt = 0, !.msgs = <<>>, !.stageCalls = 0]

\* lines 174-177: the bug fixer returned, the autotest is run again
AfterBugFix(f) == EnterPlain(f, "reverify", "VERIFY")

\* mutation: the save guard forgets the validation result
Persist_ignoresValidity(f) ==
    IF HasProject(f)
    THEN EnterPlain(f, "save", "SAVE")
    ELSE [f EXCEPT !.pc = "returned", !.attempt = 0, !.msgs = <<>>, !.stageCalls = 0]

\* mutation: the save guard also asks for a passing autotest
Persist_requiresPass(f) ==
    IF HasProject(f) /\ IsValid(f) /\ Passing(f.execution_result)
    THEN EnterPlain(f, "save", "SAVE")
    ELSE [f EXCEPT !.pc = "returned", !.attempt = 0, !.msgs = <<>>, !.stageCalls = 0]

\* lines 194-207: save only if project is present and validation passed
Persist(f) ==
    IF HasProject(f) /\ IsValid(f)
    THEN EnterPlain(f, "save", "SAVE")
    ELSE [f EXCEPT !.pc = "returned", !.attempt = 0, !.msgs = <<>>, !.stageCalls = 0]

\* mutation: the autotest runs for any project, validated or not
AfterValidation_ignoresValidity(f) ==
    IF HasProject(f)
    THEN EnterPlain(f, "verify", "VERIFY")
    ELSE Persist(f)

\* lines 153-162: run the autotest if the project is valid
AfterValidation(f) ==
    IF HasProject(f) /\ IsValid(f)
    THEN EnterPlain(f, "verify", "VERIFY")
    ELSE Persist(f)

\* mutation: a failing final validation keeps the corrected draft
AfterFinalValidate_noRollback(f) ==
    IF ~IsValid(f)
    THEN AfterValidation([f EXCEPT !.validation_result = "none"])
    ELSE AfterValidation(f)

\* lines 132-151: the outcome of the final validation
AfterFinalValidate(f) ==
    IF ~IsValid(f)
    THEN AfterValidation([f EXCEPT !.project = f.previous_version,
                                   !.validation_result = "none"])
    ELSE AfterValidation(f)

\* lines 124-130: after the correction loop
AfterCorrectionLoop(f) ==
    LET g == IF ~HasProject(f) THEN [f EXCEPT !.project = f.previous_version] ELSE f
    IN IF ~IsValid(g)
       THEN Enter(g, "final_validate", "VALIDATE")
       ELSE AfterValidation(g)

\* line 108: for attempt in range(1, project_correction_attempts + 1)
CorrectionIteration(f, a, N) ==
    IF a <= N
    THEN Enter([f EXCEPT !.loopAttempt = a], "validate", "VALIDATE")
    ELSE AfterCorrectionLoop(f)

\* mutation: the loop corrects whatever the validator said
AfterLoopValidate_alwaysCorrects(f) == Enter(f, "correct", "CORRECT")

\* lines 113-123: the validator returned inside the loop
AfterLoopValidate(f) ==
    IF f.validation_result # "none" /\ ~IsValid(f)
    THEN Enter(f, "correct", "CORRECT")
    ELSE AfterCorrectionLoop(f)

\* mutation: the snapshot is taken again after every correction
AfterCorrect_resnapshots(f, N) ==
    IF ~HasProject(f)
    THEN AfterCorrectionLoop([f EXCEPT !.project = f.previous_version])
    ELSE CorrectionIteration([f EXCEPT !.previous_version = f.project], f.loopAttempt + 1, N)

\* lines 116-121: the corrector returned
AfterCorrect(f, N) ==
    IF ~HasProject(f)
    THEN AfterCorrectionLoop([f EXCEPT !.project = f.previous_version])
    ELSE CorrectionIteration(f, f.loopAttempt + 1, N)

\* lines 106-108: the generator returned
AfterGenerate(f, N) ==
    IF HasProject(f)
    THEN CorrectionIteration([f EXCEPT !.previous_version = f.project], 1, N)
    ELSE AfterValidation(f)

\* mutation: an adopted project is sent to the store like a generated one
AfterRank_savesAdopted(f) ==
    IF ~HasProject(f)
    THEN Enter(f, "generate", "GENERATE")
    ELSE EnterPlain(f, "save", "SAVE")

\* lines 104-105: generate unless ranking adopted a project; an adopted
\* project skips the whole block, the save included
AfterRank(f) ==
    IF ~HasProject(f)
    THEN Enter(f, "generate", "GENERATE")
    ELSE [f EXCEPT !.pc = "returned", !.attempt = 0, !.msgs = <<>>, !.stageCalls = 0]

\* lines 100-102: rank only if there are candidates
AfterRetrieve(f) ==
    IF f.candidates # <<>>
    THEN Enter(f, "rank", "RANK")
    ELSE AfterRank(f)

\* mutation: the bug-fix loop runs one iteration too many
BugFixIteration_offByOne(f, a, M) ==
    IF a <= M + 1 /\ f.execution_result # NoResult /\ Failing(f.execution_result)
    THEN Enter([f EXCEPT !.loopAttempt = a], "bugfix", "BUGFIX")
    ELSE Persist(f)

\* mutation: the loop calls the bug fixer whatever the last autotest said
BugFixIteration_ignoresResult(f, a, M) ==
    IF a <= M
    THEN Enter([f EXCEPT !.loopAttempt = a], "bugfix", "BUGFIX")
    ELSE Persist(f)

\* lines 165-192: for attempt in range(1, bug_fix_attempts + 1)
BugFixIteration(f, a, M) ==
    IF a <= M /\ f.execution_result # NoResult /\ Failing(f.execution_result)
    THEN Enter([f EXCEPT !.loopAttempt = a], "bugfix", "BUGFIX")
    ELSE Persist(f)

\* lines 175-185: the re-run of the autotest inside the loop
AfterReverify(f, M) ==
    IF f.execution_result # NoResult /\ Passing(f.execution_result)
    THEN Persist(f)
    ELSE BugFixIteration(f, f.loopAttempt + 1, M)


\* --------------------------------------------------------------- markdown
\* A markdown text is the sequence of its lines (str.splitlines).  A line is
\* a header line, a line that starts with a run of backticks and tildes
\* (ticks is the run, lang the first word after it), a blank line, or any
\* other line.
TextLine(t) == [kind |-> "text", ticks |-> <<>>, name |-> t, lang |-> ""]
HeaderLine(name) == [kind |-> "header", ticks |-> <<>>, name |-> name, lang |-> ""]
RunLine(ticks, lang) == [kind |-> "run", ticks |-> ticks, name |-> "", lang |-> lang]

Backticks(n) == [k \in 1..n |-> "backtick"]
Tildes(n) == [k \in 1..n |-> "tilde"]

\* _MD_FENCE_RE matches the line: it starts with three or more characters,
\* each a backtick or a tilde
FenceMatch(line) == line.kind = "run" /\ Len(line.ticks) >= 3
\* _MD_HEADER_RE matches the line
HeaderMatch(line) == line.kind = "header"
\* line.strip() == ""
BlankMatch(line) == line.kind = "blank"

\* flush_current_section: the content without its leading and trailing blank lines
RECURSIVE TrimRight(_)
TrimRight(lines) ==
    IF lines # <<>> /\ BlankMatch(lines[Len(lines)])
    THEN TrimRight(SubSeq(lines, 1, Len(lines) - 1)) ELSE lines
TrimBlankLines(lines) ==
    LET RECURSIVE TrimLeft(_)
        TrimLeft(ls) == IF ls # <<>> /\ BlankMatch(Head(ls)) THEN TrimLeft(Tail(ls)) ELSE ls
    IN TrimRight(TrimLeft(lines))

FlushCurrentSection(st) ==
    IF ~st.has_header
    THEN [st EXCEPT !.current_content_lines = <<>>]
    ELSE [st EXCEPT !.sections = Append(@, [header |-> st.current_header,
                                            at |-> st.header_at,
                                            content |-> TrimBlankLines(st.current_content_lines)]),
                    !.has_header = FALSE, !.current_header = "",
                    !.current_content_lines = <<>>]

\* if current_header is not None: current_content_lines.append(line)
KeepLine(st, line) ==
    IF st.has_header THEN [st EXCEPT !.current_content_lines = Append(@, line)] ELSE st

\* char == fence_char and count >= fence_len
ClosesFence(st, line) ==
    line.ticks[1] = st.fence_char /\ Len(line.ticks) >= st.fence_len

\* one turn of the loop over the lines; k is the number of the line
HeaderScanLine(st, line, k) ==
    IF FenceMatch(line)
    THEN IF ~st.in_code_fence
         THEN KeepLine([st EXCEPT !.in_code_fence = TRUE, !.fence_char = line.ticks[1],
                                  !.fence_len = Len(line.ticks)], line)
         ELSE KeepLine(IF ClosesFence(st, line)
                       THEN [st EXCEPT !.in_code_fence = FALSE, !.fence_char = "",
                                       !.fence_len = 0]
                       ELSE st, line)
    ELSE IF st.in_code_fence THEN KeepLine(st, line)
    ELSE IF HeaderMatch(line)
         THEN [FlushCurrentSection(st) EXCEPT !.has_header = TRUE,
                                              !.current_header = line.name,
                                              !.header_at = k,
                                              !.current_content_lines = <<>>]
    ELSE KeepLine(st, line)

\* parse_markdown_headers: the locals before the first line (header_at is
\* the number of the line that current_header came from), the loop over the
\* lines and the last flush
ParseMarkdownHeaders(lines) ==
    LET start == [sections |-> <<>>, has_header |-> FALSE, current_header |-> "",
                  header_at |-> 0, current_content_lines |-> <<>>,
                  in_code_fence |-> FALSE, fence_char |-> "", fence_len |-> 0]
        RECURSIVE HeaderScan(_, _)
        HeaderScan(st, k) ==
            IF k > Len(lines) THEN st ELSE HeaderScan(HeaderScanLine(st, lines[k], k), k + 1)
    IN IF lines = <<>> THEN <<>>
       ELSE FlushCurrentSection(HeaderScan(start, 1)).sections

\* ------------------------------------------------------- exercise documents
\* language tags of fence lines, and str.lower() on them
Lower(lang) ==
    CASE lang = "PY" -> "py"
      [] lang = "Python" -> "python"
      [] lang = "Markdown" -> "markdown"
      [] OTHER -> lang

\* header texts: the title line of the template with a topic, the same
\* with nothing after the colon, another title with a colon, a title
\* without colon; the six section headers of the template, also in upper
\* case and with a suffix
SectionKeys == <<"goal", "description", "input_data", "expected_output",
                 "expert_solution", "autotest">>

\* _normalize_header_name: lower case, white space collapsed
NormalizeHeaderName(header) ==
    CASE header = "AUTOTEST" -> "autotest"
      [] OTHER -> header

\* str.startswith on normalized header names
StartsWith(k, prefix) ==
    \/ k = prefix
    \/ k = "autotest (python)" /\ prefix = "autotest"

\* _parse_topic_from_h1: the text after the first colon, stripped, or None
\* (written "")
ParseTopicFromH1(header) ==
    CASE header = "template: T" -> "T"
      [] header = "project: T" -> "T"
      [] header = "template:" -> ""
      [] OTHER -> ""

\* the locals of a scan for fenced blocks
FenceScanStart ==
    [in_fence |-> FALSE, fence_char |-> "", fence_len |-> 0, lang_hint |-> "",
     start_idx |-> 0, buf |-> <<>>]
OpenFence(line, k) ==
    [in_fence |-> TRUE, fence_char |-> line.ticks[1], fence_len |-> Len(line.ticks),
     lang_hint |-> line.lang, start_idx |-> k, buf |-> <<>>]

\* _find_first_fenced_block: the language hint and the code of the first
\* fenced block that is closed; (None, None) is found = FALSE
FindFirstFencedBlock(lines) ==
    LET RECURSIVE FindFirstFrom(_, _)
        FindFirstFrom(k, st) ==
            IF k > Len(lines) THEN [found |-> FALSE, lang |-> "", code |-> <<>>]
            ELSE LET line == lines[k]
                 IN IF FenceMatch(line) /\ ~st.in_fence
                    THEN FindFirstFrom(k + 1, OpenFence(line, k))
                    ELSE IF FenceMatch(line) /\ ClosesFence(st, line)
                    THEN [found |-> TRUE, lang |-> st.lang_hint, code |-> TrimRight(st.buf)]
                    ELSE IF st.in_fence
                    THEN FindFirstFrom(k + 1, [st EXCEPT !.buf = Append(@, line)])
                    ELSE FindFirstFrom(k + 1, st)
    IN FindFirstFrom(1, FenceScanStart)

\* extract_expected_output._strip_all_fenced_code_markers
StripAllFencedCodeMarkers(lines) ==
    LET RECURSIVE StripMarkersFrom(_, _, _)
        StripMarkersFrom(k, st, output) ==
            IF k > Len(lines) THEN TrimBlankLines(output)
            ELSE LET line == lines[k]
                 IN IF FenceMatch(line) /\ ~st.in_fence
                    THEN StripMarkersFrom(k + 1, OpenFence(line, k), output)
                    ELSE IF FenceMatch(line) /\ ClosesFence(st, line)
                    THEN StripMarkersFrom(k + 1, FenceScanStart, output)
                    ELSE IF ~st.in_fence \/ ~FenceMatch(line)
                    THEN StripMarkersFrom(k + 1, st, Append(output, line))
                    ELSE StripMarkersFrom(k + 1, st, output)
    IN StripMarkersFrom(1, FenceScanStart, <<>>)

\* extract_expected_output: the (start_idx, end_idx, lang) of the closed blocks
RECURSIVE BlocksFrom(_, _, _, _)
BlocksFrom(lines, k, st, blocks) ==
    IF k > Len(lines) THEN blocks
    ELSE LET line == lines[k]
         IN IF FenceMatch(line) /\ ~st.in_fence
            THEN BlocksFrom(lines, k + 1, OpenFence(line, k), blocks)
            ELSE IF FenceMatch(line) /\ ClosesFence(st, line)
            THEN BlocksFrom(lines, k + 1, FenceScanStart,
                            Append(blocks, [b_start |-> st.start_idx, b_end |-> k,
                                            b_lang |-> st.lang_hint]))
            ELSE BlocksFrom(lines, k + 1, st, blocks)

\* extract_expected_output
ExtractExpectedOutput(lines) ==
    IF lines = <<>> THEN <<>>
    ELSE LET blocks == BlocksFrom(lines, 1, FenceScanStart, <<>>)
         IN IF Len(blocks) # 1 THEN StripAllFencedCodeMarkers(lines)
            ELSE LET b == blocks[1]
                     has_outside_nonblank ==
                         \E k \in 1..Len(lines) :
                             (k < b.b_start \/ k > b.b_end) /\ ~BlankMatch(lines[k])
                 IN IF Lower(b.b_lang) \in {"markdown", "md"} \/ ~has_outside_nonblank
                    THEN StripAllFencedCodeMarkers(SubSeq(lines, b.b_start + 1, b.b_end - 1))
                    ELSE StripAllFencedCodeMarkers(lines)

\* parse_project_markdown._unwrap_outer_markdown_block
UnwrapOuterMarkdownBlock(lines) ==
    LET nonblank == { k \in 1..Len(lines) : ~BlankMatch(lines[k]) }
    IN IF nonblank = {} THEN lines
       ELSE LET start == CHOOSE k \in nonblank : \A j \in nonblank : k <= j
                end == CHOOSE k \in nonblank : \A j \in nonblank : k >= j
            IN IF ~FenceMatch(lines[start]) THEN lines
               ELSE IF Lower(lines[start].lang) \notin {"markdown", "md", ""} THEN lines
               ELSE IF end <= start THEN lines
               ELSE IF ~(/\ FenceMatch(lines[end])
                         /\ lines[end].ticks[1] = lines[start].ticks[1]
                         /\ Len(lines[end].ticks) >= Len(lines[start].ticks)) THEN lines
               ELSE SubSeq(lines, start + 1, end - 1)

\* parse_project_markdown._strip_conversational_text: the text from the
\* first line that starts with the title of the template, colon included
StripConversationalText(lines) ==
    LET titles == { k \in 1..Len(lines) :
                      HeaderMatch(lines[k]) /\ lines[k].name \in {"template: T", "template:"} }
    IN IF titles = {} THEN lines
       ELSE SubSeq(lines, CHOOSE k \in titles : \A j \in titles : k <= j, Len(lines))

\* normalized_map[norm] = content: a dict keeps the place of a key it has
RECURSIVE NormalizedMap(_, _, _)
NormalizedMap(sections, k, map) ==
    IF k > Len(sections) THEN map
    ELSE LET norm == NormalizeHeaderName(sections[k].header)
             entry == [key |-> norm, content |-> sections[k].content]
         IN NormalizedMap(sections, k + 1,
                IF \E j \in 1..Len(map) : map[j].key = norm
                THEN [j \in 1..Len(map) |-> IF map[j].key = norm THEN entry ELSE map[j]]
                ELSE Append(map, entry))

\* the lookup of one key of key_map: the exact key, else the first key of
\* the map that starts with it; found_content is None when has = FALSE
FoundContent(map, norm_key) ==
    LET exact == { j \in 1..Len(map) : map[j].key = norm_key }
        prefixed == { j \in 1..Len(map) : StartsWith(map[j].key, norm_key) }
    IN IF exact # {} THEN [has |-> TRUE, content |-> map[CHOOSE j \in exact : TRUE].content]
       ELSE IF prefixed # {}
            THEN [has |-> TRUE,
                  content |-> map[CHOOSE j \in prefixed : \A i \in prefixed : j <= i].content]
       ELSE [has |-> FALSE, content |-> <<>>]

\* what parse_project_markdown returns (ok) or raises (error, got)
NoParse ==
    [ok |-> FALSE, error |-> "", got |-> "", index |-> -1, scores |-> <<>>,
     project |-> [raw_markdown |-> <<>>, topic |-> "", goal |-> <<>>, description |-> <<>>,
                  input_data |-> <<>>, expected_output |-> <<>>, expert_solution |-> <<>>,
                  autotest |-> <<>>]]
Raise(message, got) == [NoParse EXCEPT !.error = message, !.got = got]

\* allowed_python_langs
AllowedPythonLangs == {"python", "py"}

\* parse_project_markdown
ParseProjectMarkdown(raw_markdown) ==
    IF \A k \in 1..Len(raw_markdown) : BlankMatch(raw_markdown[k])
    THEN Raise("Empty markdown provided", "<empty>")
    ELSE
    LET preprocessed == StripConversationalText(UnwrapOuterMarkdownBlock(raw_markdown))
        sections == ParseMarkdownHeaders(preprocessed)
    IN IF sections = <<>> THEN Raise("No top-level headers found", "")
       ELSE
       LET normalized_map == NormalizedMap(sections, 1, <<>>)
           first_h1 == sections[1].header
           topic_ == ParseTopicFromH1(first_h1)
           collected == [k \in 1..Len(SectionKeys) |-> FoundContent(normalized_map, SectionKeys[k])]
       IN IF topic_ = "" THEN Raise("Failed to parse topic from H1", first_h1)
          ELSE IF \E k \in 1..Len(SectionKeys) : ~collected[k].has
          THEN Raise("Missing required sections", "")
          ELSE
          LET expected_output_ == ExtractExpectedOutput(collected[4].content)
              exp == FindFirstFencedBlock(collected[5].content)
              auto == FindFirstFencedBlock(collected[6].content)
          IN IF ~exp.found THEN Raise("Code block not found in expert solution", "")
             ELSE IF ~auto.found THEN Raise("Code block not found in autotest", "")
             ELSE IF ~(auto.lang # "" /\ Lower(auto.lang) \in AllowedPythonLangs)
             THEN Raise("Autotest must be Python", auto.lang)
             ELSE [NoParse EXCEPT
                     !.ok = TRUE,
                     !.project = [raw_markdown |-> preprocessed,
                                  topic |-> topic_,
                                  goal |-> collected[1].content,
                                  description |-> collected[2].content,
                                  input_data |-> collected[3].content,
                                  expected_output |-> expected_output_,
                                  expert_solution |-> exp.code,
                                  autotest |-> auto.code]]

\* the texts the document parser is tried on: an optional outer markdown
\* fence, optional lines before the title, the title, and the six sections
\* of the template with a choice of bodies
FencedBlock(n, lang, code) == <<RunLine(Backticks(n), lang)>> \o code \o <<RunLine(Backticks(n), "")>>
Section(key, body) == <<HeaderLine(key)>> \o body

ProjectText(wrap, lead, title, goal, expected, solution, header, autotest) ==
    LET lines == lead \o <<HeaderLine(title)>> \o Section("goal", goal)
                 \o Section("description", <<TextLine("d")>>)
                 \o Section("input_data", <<TextLine("i")>>)
                 \o Section("expected_output", expected)
                 \o Section("expert_solution", solution)
                 \o Section(header, autotest)
    IN IF wrap THEN FencedBlock(4, "markdown", lines) ELSE lines

ProjectTexts ==
    { ProjectText(w, l, t, g, e, x, h, a) :
        w \in BOOLEAN,
        l \in { <<>>, <<TextLine("hello")>>, FencedBlock(3, "", <<>>) },
        t \in {"template: T", "template:", "project: T", "project"},
        g \in { <<TextLine("g")>>, <<>> },
        e \in { <<TextLine("out")>>, FencedBlock(3, "", <<TextLine("out")>>), <<>> },
        x \in { FencedBlock(3, "python", <<TextLine("sol")>>), FencedBlock(3, "", <<>>),
                <<TextLine("sol")>> },
        h \in {"autotest", "AUTOTEST", "autotest (python)", "notes"},
        a \in { FencedBlock(3, "python", <<TextLine("test")>>),
                FencedBlock(3, "PY", <<TextLine("test")>>),
                FencedBlock(3, "js", <<TextLine("test")>>),
                FencedBlock(3, "text", <<TextLine("x")>>)
                    \o FencedBlock(3, "python", <<TextLine("test")>>),
                FencedBlock(3, "python", <<>>),
                <<TextLine("test")>> } }

\* a call of a parser: what it was given and what came of it (sections for
\* parse_markdown_headers, result for parse_project_markdown, again for the
\* parse of the raw_markdown of the document returned)
ParserIdle ==
    [pc |-> "idle", text |-> <<>>, sections |-> <<>>, result |-> NoParse, again |-> NoParse]
ParserCall(what, text) == [ParserIdle EXCEPT !.pc = what, !.text = text]

\* ---------------------------------------------------------- ranking scores
\* the elements of the JSON array a ranking reply holds: numbers (in
\* tenths), strings, booleans and null
JsonItems ==
    { [type |-> "number", value |-> v, text |-> ""] : v \in {-1, 0, 5, 10, 11} }
    \cup { [type |-> "string", value |-> 0, text |-> t] : t \in {"0.5", "abc"} }
    \cup { [type |-> "boolean", value |-> 1, text |-> ""],
            [type |-> "null", value |-> 0, text |-> ""] }

\* float(item): the value in tenths, or ValueError / TypeError
Float(item) ==
    CASE item.type = "number" -> [raised |-> FALSE, value |-> item.value]
      [] item.type = "boolean" -> [raised |-> FALSE, value |-> 10 * item.value]
      [] item.type = "string" /\ item.text = "0.5" -> [raised |-> FALSE, value |-> 5]
      [] OTHER -> [raised |-> TRUE, value |-> 0]

\* parse_llm_ranker_scores, lines 743-763: the loop over the loaded array;
\* the out-of-range error is a ValueError, so the except clause of the loop
\* turns it into "Invalid score at index i"
ParseLlmRankerScores(loaded) ==
    LET RECURSIVE ScoresFrom(_, _)
        ScoresFrom(i, scores) ==
            IF i >= Len(loaded) THEN [NoParse EXCEPT !.ok = TRUE, !.scores = scores]
            ELSE LET score == Float(loaded[i + 1])
                 IN IF score.raised \/ ~(0 <= score.value /\ score.value <= 10)
                    THEN [NoParse EXCEPT !.error = "Invalid score", !.index = i]
                    ELSE ScoresFrom(i + 1, Append(scores, score.value))
    IN ScoresFrom(0, <<>>)

\* ---------------------------------------------------------------- sandbox
\* PythonSandboxService.__init__: default_timeout_seconds = 5
DefaultTimeoutSeconds == 5
\* the runners' own default_timeout_seconds
RunnerDefaultTimeoutSeconds == 5

\* the timeout_seconds argument of run_code: None, or a number of seconds
NoTimeout == [given |-> FALSE, seconds |-> 0]
Timeout(n) == [given |-> TRUE, seconds |-> n]

\* mutation: only the empty string is rejected
IsBlank_emptyOnly(code) == code = ""

\* code.strip() == ""
IsBlank(code) == code \in {"", "  "}

\* code.encode("utf-8") succeeds
Encodable(code) == code # "surrogate"

\* the exit code of a program that runs to its end
ExitCodeOf(code) == IF code = "print(1)" THEN 0 ELSE 1
Halts(code) == code \in {"print(1)", "raise"}

\* run_code: effective_timeout
EffectiveTimeout(t) == IF ~t.given THEN DefaultTimeoutSeconds ELSE t.seconds

\* the timeout each runner hands to asyncio.wait_for
WaitTimeout(runner, seconds) ==
    IF runner = "compose" /\ seconds = 0 THEN RunnerDefaultTimeoutSeconds ELSE seconds

SandboxIdle ==
    [pc |-> "idle", runner |-> "docker", code |-> "", timeout_seconds |-> NoTimeout,
     runs |-> 0, effective_timeout |-> 0, wait_timeout |-> 0,
     client |-> "none", program |-> "none", container |-> "none",
     result |-> NoResult, error |-> "none"]

\* the except Exception branch of a runner
RunnerFault(sb) ==
    [sb EXCEPT !.pc = "returned", !.result = SandboxResult(1, FALSE, "docker failed")]

\* ------------------------------------------------------------ collaborators
\* RagService.try_to_get: up to k_candidates stored entries, in the order
\* the vector store ranks them
Lookups(st) == { c \in SeqsUpTo(st, KCandidates) : Distinct(c) }

\* RagService.save as the pipelines see it: the entry is filed under its
\* topic, and a topic the store already holds keeps its entry
SaveEntry(st, t, p) ==
    IF \E e \in st : e.topic = t THEN st ELSE st \cup { Topic2Project(t, p) }

\* the entry RagService.save hands to the vector store: ids = [topic],
\* metadatas = [{"topic": topic, "micro_project": micro_project}]
SavedEntry(t, p) == [id |-> t, metadata |-> Topic2Project(t, p)]

\* ChromaDbAdapter.add on a collection whose ids are unique: an entry with
\* a new id is appended, one with a known id is not stored
CollectionAdd(col, e) ==
    IF \E k \in 1..Len(col) : col[k].id = e.id THEN col ELSE Append(col, e)

\* what the model's reply to the ranking prompt parses to
RankReplies ==
    { [parses |-> FALSE, scores |-> <<>>] }
    \cup { [parses |-> TRUE, scores |-> s] : s \in SeqsUpTo(ScoreValues, KCandidates) }

\* mutation: a reply with fewer scores than candidates is accepted
ScoresMatch_atMost(scores, cs) == Len(scores) <= Len(cs)

\* lines 242-245: the reply must hold one score per candidate
ScoresMatch(scores, cs) == Len(scores) = Len(cs)

\* mutation: of several maximal scores the last one is taken
BestScoreIdx_last(scores) ==
    CHOOSE i \in 1..Len(scores) :
        /\ \A j \in 1..Len(scores) : scores[j] <= scores[i]
        /\ \A j \in (i + 1)..Len(scores) : scores[j] < scores[i]

\* max(range(len(scores)), key=lambda i: scores[i]): the first index of a
\* maximal score
BestScoreIdx(scores) ==
    CHOOSE i \in 1..Len(scores) :
        /\ \A j \in 1..Len(scores) : scores[j] <= scores[i]
        /\ \A j \in 1..(i - 1) : scores[j] < scores[i]

\* mutation: a score equal to the threshold is not enough
ApplyRanking_strict(f, scores) ==
    IF scores # <<>>
    THEN LET best == BestScoreIdx(scores)
         IN IF scores[best] > SimilarityThreshold
            THEN [f EXCEPT !.project = f.candidates[best].project,
                           !.topic = f.candidates[best].topic]
            ELSE [f EXCEPT !.project = NoProject]
    ELSE [f EXCEPT !.project = NoProject]

\* mutation: the best candidate's topic is taken over whatever its score
ApplyRanking_renamesAlways(f, scores) ==
    IF scores # <<>>
    THEN LET best == BestScoreIdx(scores)
         IN IF scores[best] >= SimilarityThreshold
            THEN [f EXCEPT !.project = f.candidates[best].project,
                           !.topic = f.candidates[best].topic]
            ELSE [f EXCEPT !.project = NoProject,
                           !.topic = f.candidates[best].topic]
    ELSE [f EXCEPT !.project = NoProject]

\* LLMRankerInference.transform, lines 248-275: adopt the best candidate
\* when its score reaches the threshold
ApplyRanking(f, scores) ==
    IF scores # <<>>
    THEN LET best == BestScoreIdx(scores)
         IN IF scores[best] >= SimilarityThreshold
            THEN [f EXCEPT !.project = f.candidates[best].project,
                           !.topic = f.candidates[best].topic]
            ELSE [f EXCEPT !.project = NoProject]
    ELSE [f EXCEPT !.project = NoProject]

\* an entry of the list a topic-extraction reply parses to: a string, or
\* a value of another type
StrEntry(text) == [isStr |-> TRUE, text |-> text]
OtherEntry == [isStr |-> FALSE, text |-> "42"]

\* a label with white space around it, as a reply may write it
Padded(t) ==
    CASE t = "t1" -> " t1 "
      [] t = "t2" -> " t2 "
      [] OTHER -> " "

\* the entries a reply about the given labels may hold: a label, a padded
\* label, the empty string, a blank string, a non-string
RawEntries(labels) ==
    { StrEntry(t) : t \in labels } \cup { StrEntry(Padded(t)) : t \in labels }
    \cup { StrEntry(""), StrEntry(" "), OtherEntry }

RawReplies(labels) == SeqsUpTo(RawEntries(labels), MaxReplyLen)

\* mutation: the entries are not stripped
Strip_keepsPadding(text) == text

\* item.strip()
Strip(text) ==
    CASE text = " t1 " -> "t1"
      [] text = " t2 " -> "t2"
      [] text = " " -> ""
      [] OTHER -> text

\* parse_define_topics, lines 822-836: keep the non-empty stripped strings,
\* first occurrences only, in order
RECURSIVE NormalizeTopics(_, _)
NormalizeTopics(raw, normalized) ==
    IF raw = <<>> THEN normalized
    ELSE LET item == Head(raw)
         IN IF item.isStr
            THEN LET t == Strip(item.text)
                 IN IF t # "" /\ t \notin Range(normalized)
                    THEN NormalizeTopics(Tail(raw), Append(normalized, t))
                    ELSE NormalizeTopics(Tail(raw), normalized)
            ELSE NormalizeTopics(Tail(raw), normalized)

\* order-preserving removal of repeated elements
RECURSIVE Dedup(_, _)
Dedup(s, acc) ==
    IF s = <<>> THEN acc
    ELSE IF Head(s) \in Range(acc) THEN Dedup(Tail(s), acc)
         ELSE Dedup(Tail(s), Append(acc, Head(s)))

ParseDefineTopics(raw) == NormalizeTopics(raw, <<>>)

\* ProjectsAgentState._ensure_unique_topics, run on assignment
EnsureUniqueTopics(ts) == Dedup(ts, <<>>)

\* mutation: the placeholder is not looked for, the autotest always runs
CheckAutotest_runsAnyway(f, r) ==
    IF HasProject(f)
    THEN [f EXCEPT !.execution_result = r, !.sandboxRuns = @ + 1]
    ELSE f

\* CheckAutotestSandboxInference.transform with the sandbox answering r
CheckAutotest(f, r) ==
    IF HasProject(f)
    THEN IF ~f.project.ph
         THEN [f EXCEPT !.execution_result = SandboxResult(1, FALSE, "placeholder missing")]
         ELSE [f EXCEPT !.execution_result = r, !.sandboxRuns = @ + 1]
    ELSE f

\* mutation: gather without return_exceptions, the first exception of a
\* task propagates to execute while the siblings are still running
GatherOutcome_failFast(F, n) ==
    IF \E i \in 1..n : F[i].pc = "raised"
    THEN "raise"
    ELSE IF \A i \in 1..n : F[i].pc = "returned"
         THEN "results"
         ELSE "pending"

\* asyncio.gather(*tasks, return_exceptions=True): completes when every
\* task has finished, exceptions being results
GatherOutcome(F, n) ==
    IF \A i \in 1..n : F[i].pc \in {"returned", "raised"}
    THEN "results"
    ELSE "pending"

\* mutation: the fold does not skip the tasks that raised
RECURSIVE FoldResults_keepsRaised(_, _, _, _)
FoldResults_keepsRaised(F, i, n, acc) ==
    IF i > n THEN acc
    ELSE IF F[i].project # NoProject
         THEN FoldResults_keepsRaised(F, i + 1, n,
                  Append(acc, Topic2Project(F[i].topic, F[i].project)))
         ELSE FoldResults_keepsRaised(F, i + 1, n, acc)

\* mutation: each result is put in front of the ones folded before it
RECURSIVE FoldResults_prepends(_, _, _, _)
FoldResults_prepends(F, i, n, acc) ==
    IF i > n THEN acc
    ELSE IF F[i].pc = "raised" THEN FoldResults_prepends(F, i + 1, n, acc)
    ELSE IF F[i].project # NoProject
         THEN FoldResults_prepends(F, i + 1, n,
                  <<Topic2Project(F[i].topic, F[i].project)>> \o acc)
         ELSE FoldResults_prepends(F, i + 1, n, acc)

\* execute, lines 227-248: fold the results in topic order
RECURSIVE FoldResults(_, _, _, _)
FoldResults(F, i, n, acc) ==
    IF i > n THEN acc
    ELSE IF F[i].pc = "raised" THEN FoldResults(F, i + 1, n, acc)
    ELSE IF F[i].project # NoProject
         THEN FoldResults(F, i + 1, n, Append(acc, Topic2Project(F[i].topic, F[i].project)))
         ELSE FoldResults(F, i + 1, n, acc)

\* BaseAssistant.handle_exception: raise Exception(f"{stage}: {exception}")
HandleException(f) ==
    IF f.pc = "raised"
    THEN [f EXCEPT !.error = [kind |-> "Exception", reply |-> f.error.reply]]
    ELSE f

\* ------------------------------------------------------------------ Init
\* execute has been called: DefineTopicsInference.transform has built its
\* prompt and is about to query the model
ExecuteStart ==
    Enter([FreshFrame("") EXCEPT !.pc = "define"], "define", "DEFINE_TOPICS")

\* every coroutine starts in the frame F gives it
FramesInit(F) ==
    /\ pc = [p \in Procs |-> F[p].pc]
    /\ attempt = [p \in Procs |-> F[p].attempt]
    /\ msgs = [p \in Procs |-> F[p].msgs]
    /\ stageCalls = [p \in Procs |-> F[p].stageCalls]
    /\ llmCalls = [p \in Procs |-> F[p].llmCalls]
    /\ sandboxRuns = [p \in Procs |-> F[p].sandboxRuns]
    /\ docs = [p \in Procs |-> F[p].docs]
    /\ topic = [p \in Procs |-> F[p].topic]
    /\ candidates = [p \in Procs |-> F[p].candidates]
    /\ response = [p \in Procs |-> F[p].response]
    /\ rankScores = [p \in Procs |-> F[p].rankScores]
    /\ project = [p \in Procs |-> F[p].project]
    /\ validation_result = [p \in Procs |-> F[p].validation_result]
    /\ execution_result = [p \in Procs |-> F[p].execution_result]
    /\ previous_version = [p \in Procs |-> F[p].previous_version]
    /\ loopAttempt = [p \in Procs |-> F[p].loopAttempt]
    /\ trace = [p \in Procs |-> F[p].trace]
    /\ outcomes = [p \in Procs |-> F[p].outcomes]
    /\ error = [p \in Procs |-> F[p].error]

PipelineInit(cs, Ns, Ms) ==
    /\ comments = cs
    /\ topics = <<>>
    /\ topic2project = <<>>
    /\ cfgN \in Ns
    /\ cfgM \in Ms
    /\ store = PreStored
    /\ saveLog = [p \in Procs |-> <<>>]
    /\ topics_value = <<>>
    /\ FramesInit([p \in Procs |-> IF p = 0 THEN ExecuteStart ELSE FreshFrame("")])

\* the batch is about to run; no sandbox call is being followed
InitWith(cs, Ns, Ms) ==
    /\ PipelineInit(cs, Ns, Ms)
    /\ sandbox = SandboxIdle
    /\ collection = <<>>
    /\ saves = <<>>
    /\ parser = ParserIdle

\* one code-review comment, every configured loop bound
Init == InitWith(<<"t1">>, 0..MaxCorrectionAttempts, 0..MaxBugFixAttempts)

\* two code-review comments, hence up to two concurrent pipelines
BatchInit == InitWith(<<"t1", "t2">>, {0}, {0})

\* --------------------------------------------------------------- actions
\* the variables of the batch, which the other components leave alone
pipeline == << comments, topics, topic2project, cfgN, cfgM, store, pc, attempt,
              msgs, stageCalls, llmCalls, sandboxRuns, docs, topic, candidates,
              response, rankScores, project, validation_result, execution_result,
              previous_version, loopAttempt, trace, outcomes, saveLog,
              topics_value, error >>
shared == << comments, cfgN, cfgM, topics_value, sandbox, collection, saves, parser >>

\* DefineTopicsInference.transform returned the topics the reply raw parses
\* to; execute fans them out to process_topic tasks
DefineTopicsParsed(raw) ==
    LET ts == EnsureUniqueTopics(ParseDefineTopics(raw))
        me == Answered(Parsed(Frame(0)), "parsed")
        F == [p \in Procs |->
                IF p = 0
                THEN [me EXCEPT !.pc = IF ts # <<>> THEN "gather" ELSE "done"]
                ELSE IF p <= Len(ts)
                     THEN EnterPlain(FreshFrame(ts[p]), "retrieve", "RETRIEVE")
                     ELSE Frame(p)]
    IN /\ topics' = ts
       /\ CommitAll(F)
       /\ UNCHANGED << topic2project, store, saveLog, comments, cfgN, cfgM,
                       sandbox, collection, saves, parser >>

\* DefineTopicsInference.transform inside execute: one query and its parse
DefineTopicsAttempt ==
    /\ pc[0] = "define"
    /\ \/ /\ Commit(0, HandleException(QueryRaised(Frame(0))))
          /\ UNCHANGED << topics, topic2project, store, saveLog, shared >>
       \/ /\ Commit(0, HandleException(ParseFailed(Frame(0), "DEFINE_TOPICS")))
          /\ UNCHANGED << topics, topic2project, store, saveLog, shared >>
       \/ \E raw \in RawReplies(Range(comments)) :
            DefineTopicsParsed(raw) /\ topics_value' = topics_value

\* the same parse, the parsed list being kept for inspection
ExtractTopics ==
    /\ pc[0] = "define"
    /\ \E raw \in RawReplies(Range(comments)) :
         DefineTopicsParsed(raw) /\ topics_value' = raw

\* RAGServiceInference.transform: the lookup and the branch on candidates
Retrieve(i) ==
    /\ pc[i] = "retrieve"
    /\ \/ Commit(i, [Frame(i) EXCEPT !.pc = "raised", !.error = OtherError("RuntimeError")])
       \/ \E c \in Lookups(store) :
            Commit(i, AfterRetrieve(Answered([Frame(i) EXCEPT !.candidates = c],
                                             IF c = <<>> THEN "none" ELSE "some")))
    /\ UNCHANGED << topics, topic2project, store, saveLog, shared >>

\* LLMRankerInference.transform: one attempt of the ranking stage
RankAttempt(i) ==
    /\ pc[i] = "rank"
    /\ \/ Commit(i, QueryRaised(Frame(i)))
       \/ \E r \in RankReplies :
            IF r.parses /\ ScoresMatch(r.scores, candidates[i])
            THEN Commit(i, AfterRank(ApplyRanking(
                    Answered([Parsed(Frame(i)) EXCEPT !.rankScores = r.scores],
                             IF \E k \in 1..Len(r.scores) : r.scores[k] >= SimilarityThreshold
                             THEN "high" ELSE "low"),
                    r.scores)))
            ELSE Commit(i, [ParseFailed(Frame(i), "RANK") EXCEPT !.response = r])
    /\ UNCHANGED << topics, topic2project, store, saveLog, shared >>

\* ProjectGenerationInference.transform: one attempt of the generation stage
GenerateAttempt(i) ==
    /\ pc[i] = "generate"
    /\ \/ Commit(i, QueryRaised(Frame(i)))
       \/ Commit(i, ParseFailed(Frame(i), "GENERATE"))
       \/ \E ph \in BOOLEAN :
            LET f == Answered(Parsed(Frame(i)), "parsed")
            IN Commit(i, AfterGenerate([f EXCEPT !.project = NewDocument(i, f, ph),
                                                 !.docs = @ + 1], cfgN))
    /\ UNCHANGED << topics, topic2project, store, saveLog, shared >>

\* ProjectValidatorInference.transform: one attempt of a validation, in the
\* correction loop, as the final validation, or called on its own
ValidateAttempt(i) ==
    /\ pc[i] \in {"validate", "final_validate", "validate_stage"}
    /\ \/ Commit(i, QueryRaised(Frame(i)))
       \/ Commit(i, ParseFailed(Frame(i), "VALIDATE"))
       \/ \E v \in {"valid", "invalid"} :
            LET f == ValidatorResult(Frame(i), v)
            IN CASE pc[i] = "validate" -> Commit(i, AfterLoopValidate(f))
                 [] pc[i] = "final_validate" -> Commit(i, AfterFinalValidate(f))
                 [] OTHER -> Commit(i, [f EXCEPT !.pc = "stage_returned"])
    /\ UNCHANGED << topics, topic2project, store, saveLog, shared >>

\* ProjectCorrectorInference.transform: one attempt of the correction stage
CorrectAttempt(i) ==
    /\ pc[i] = "correct"
    /\ \/ Commit(i, QueryRaised(Frame(i)))
       \/ Commit(i, ParseFailed(Frame(i), "CORRECT"))
       \/ \E ph \in BOOLEAN :
            LET f == Answered(Parsed(Frame(i)), "parsed")
            IN Commit(i, AfterCorrect([f EXCEPT !.project = NewDocument(i, f, ph),
                                                !.docs = @ + 1], cfgN))
    /\ UNCHANGED << topics, topic2project, store, saveLog, shared >>

\* CheckAutotestSandboxInference.transform: the first run of the autotest
\* and every re-run of the bug-fix loop
Verify(i) ==
    /\ pc[i] \in {"verify", "reverify"}
    /\ \/ \E r \in RunnerResults :
            LET g == CheckAutotest(Frame(i), r)
                f == Answered(g, IF g.execution_result.exit_code = 0
                                    /\ ~g.execution_result.timed_out
                                 THEN "pass" ELSE "fail")
            IN IF pc[i] = "verify"
               THEN Commit(i, BugFixIteration(f, 1, cfgM))
               ELSE Commit(i, AfterReverify(f, cfgM))
       \/ \* run_code rejects a blank program: ValueError leaves the transform
          /\ HasProject(Frame(i)) /\ project[i].ph
          /\ Commit(i, [Frame(i) EXCEPT !.pc = "raised", !.sandboxRuns = @ + 1,
                                        !.error = OtherError("ValueError")])
    /\ UNCHANGED << topics, topic2project, store, saveLog, shared >>

\* BugFixerInference.transform: one attempt of the bug-fixing stage
BugFixAttempt(i) ==
    /\ pc[i] = "bugfix"
    /\ \/ Commit(i, QueryRaised(Frame(i)))
       \/ Commit(i, ParseFailed(Frame(i), "BUGFIX"))
       \/ \E ph \in BOOLEAN :
            LET f == Answered(Parsed(Frame(i)), "parsed")
            IN Commit(i, AfterBugFix([f EXCEPT !.project = NewDocument(i, f, ph),
                                               !.docs = @ + 1]))
    /\ UNCHANGED << topics, topic2project, store, saveLog, shared >>

\* await self.rag_service.save(state.topic, state.project), then return
Save(i) ==
    /\ pc[i] = "save"
    /\ saveLog' = [saveLog EXCEPT ![i] = Append(@,
            [topic |-> topic[i], project |-> project[i],
             validation_result |-> validation_result[i]])]
    /\ \/ /\ store' = SaveEntry(store, topic[i], project[i])
          /\ Commit(i, Answered([Frame(i) EXCEPT !.pc = "returned", !.stageCalls = 0], "saved"))
       \/ /\ store' = store
          /\ Commit(i, [Frame(i) EXCEPT !.pc = "raised", !.error = OtherError("RuntimeError")])
    /\ UNCHANGED << topics, topic2project, shared >>

\* execute resumes from asyncio.gather and folds the results
Gather ==
    /\ pc[0] = "gather"
    /\ GatherOutcome(Frames, Len(topics)) # "pending"
    /\ IF GatherOutcome(Frames, Len(topics)) = "results"
       THEN /\ topic2project' = FoldResults(Frames, 1, Len(topics), topic2project)
            /\ Commit(0, [Frame(0) EXCEPT !.pc = "done"])
       ELSE /\ topic2project' = topic2project
            /\ Commit(0, [Frame(0) EXCEPT !.pc = "raised",
                                          !.error = OtherError("TaskException")])
    /\ UNCHANGED << topics, store, saveLog, shared >>

\* a step of the process_topic task of the i-th topic
Step(i) ==
    \/ Retrieve(i)
    \/ RankAttempt(i)
    \/ GenerateAttempt(i)
    \/ ValidateAttempt(i)
    \/ CorrectAttempt(i)
    \/ Verify(i)
    \/ BugFixAttempt(i)
    \/ Save(i)

Next ==
    \/ DefineTopicsAttempt
    \/ Gather
    \/ \E i \in Slots : Step(i)

\* with project_correction_attempts = bug_fix_attempts = 0 the corrector
\* and the bug fixer are never entered
BatchStep(i) ==
    \/ Retrieve(i)
    \/ RankAttempt(i)
    \/ GenerateAttempt(i)
    \/ ValidateAttempt(i)
    \/ Verify(i)
    \/ Save(i)

BatchNext ==
    \/ DefineTopicsAttempt
    \/ Gather
    \/ \E i \in Slots : BatchStep(i)

\* ProjectValidatorInference.transform is called on a state: without a
\* project it returns at once, else it builds its prompt
ValidatorCalled ==
    /\ pc[1] = "call_validate"
    /\ Commit(1, IF ~HasProject(Frame(1))
                 THEN [Frame(1) EXCEPT !.pc = "stage_returned"]
                 ELSE Enter(Frame(1), "validate_stage", "VALIDATE"))
    /\ UNCHANGED << topics, topic2project, store, saveLog, shared >>

\* CheckAutotestSandboxInference.transform is called on a state
CheckAutotestCalled ==
    /\ pc[1] = "call_check_autotest"
    /\ \E r \in RunnerResults :
         Commit(1, EnterPlain(CheckAutotest(Frame(1), r), "stage_returned", "VERIFY"))
    /\ UNCHANGED << topics, topic2project, store, saveLog, shared >>

\* CheckUserSolutionSandboxInference.transform is called on a state
CheckUserSolutionCalled ==
    /\ pc[1] = "call_check_user_solution"
    /\ \E r \in RunnerResults :
         Commit(1, EnterPlain(CheckUserSolution(Frame(1), r), "stage_returned",
                              "CHECK_USER_SOLUTION"))
    /\ UNCHANGED << topics, topic2project, store, saveLog, shared >>

\* PythonSandboxService.run_code up to the first await of the runner:
\* validation, effective timeout, runner.run called, the program encoded
RunCode ==
    /\ sandbox.pc = "call"
    /\ sandbox' =
         IF IsBlank(sandbox.code)
         THEN [sandbox EXCEPT !.pc = "raised", !.error = "ValueError"]
         ELSE LET sb == [sandbox EXCEPT
                           !.effective_timeout = EffectiveTimeout(sandbox.timeout_seconds),
                           !.runs = @ + 1]
              IN IF Encodable(sb.code)
                 THEN [sb EXCEPT !.pc = "spawn"]
                 ELSE [sb EXCEPT !.pc = "raised", !.error = "UnicodeEncodeError"]
    /\ UNCHANGED << pipeline, collection, saves, parser >>

\* asyncio.create_subprocess_exec: the docker client starts, or the call raises
CreateSubprocess ==
    /\ sandbox.pc = "spawn"
    /\ \/ sandbox' = [sandbox EXCEPT
                        !.pc = "communicate",
                        !.wait_timeout = WaitTimeout(sandbox.runner, sandbox.effective_timeout),
                        !.client = "running", !.program = "running",
                        !.container = "running"]
       \/ sandbox' = RunnerFault(sandbox)
    /\ UNCHANGED << pipeline, collection, saves, parser >>

\* asyncio.wait_for(process.communicate(...)): the program ends in time, the
\* timeout expires (process.kill() follows, then process.wait() is awaited),
\* or the call raises something else
Communicate ==
    /\ sandbox.pc = "communicate"
    /\ \/ /\ Halts(sandbox.code)
          /\ sandbox.wait_timeout > 0
          /\ sandbox' = [sandbox EXCEPT
                           !.pc = "returned",
                           !.client = "exited", !.program = "exited",
                           !.container = IF sandbox.runner = "docker" THEN "removed" ELSE @,
                           !.result = SandboxResult(ExitCodeOf(sandbox.code), FALSE, "program")]
       \/ sandbox' = [sandbox EXCEPT !.pc = "reap", !.client = "killed"]
       \/ sandbox' = RunnerFault(sandbox)
    /\ UNCHANGED << pipeline, collection, saves, parser >>

\* the rest of the except asyncio.TimeoutError branch: DockerPythonRunner
\* calls _force_remove, whose docker rm -f removes the container or fails
\* silently; ComposeDockerRunner does nothing more; both return
Reap ==
    /\ sandbox.pc = "reap"
    /\ LET done == [sandbox EXCEPT !.pc = "returned", !.result = TimedOutResult]
       IN IF sandbox.runner = "docker"
          THEN \/ sandbox' = [done EXCEPT !.container = "removed", !.program = "killed"]
               \/ sandbox' = done
          ELSE sandbox' = done
    /\ UNCHANGED << pipeline, collection, saves, parser >>

\* the task awaiting run is cancelled while run awaits communicate() or the
\* process.wait() of the timeout branch: CancelledError is no Exception, so
\* neither except clause of run catches it and no statement of run follows.
\* Whether the event loop later kills the abandoned client is not decided
\* by run; the program in the container is not reached by it either way.
Cancel ==
    /\ sandbox.pc \in {"communicate", "reap"}
    /\ \E c \in {sandbox.client, "killed"} :
         sandbox' = [sandbox EXCEPT !.pc = "cancelled", !.error = "CancelledError",
                                    !.client = c]
    /\ UNCHANGED << pipeline, collection, saves, parser >>

\* RagService.save(topic, micro_project) called directly on the service
RagSave ==
    /\ Len(saves) < MaxSaves
    /\ \E t \in {"s1", "t1", "t2"}, n \in 1..2 :
         /\ saves' = Append(saves, Topic2Project(t, Project(0, n, TRUE)))
         /\ collection' = CollectionAdd(collection, SavedEntry(t, Project(0, n, TRUE)))
    /\ UNCHANGED << pipeline, sandbox, parser >>

\* parse_markdown_headers(markdown_text)
ParseHeaders ==
    /\ parser.pc = "headers"
    /\ parser' = [parser EXCEPT !.pc = "done",
                                !.sections = ParseMarkdownHeaders(parser.text)]
    /\ UNCHANGED << pipeline, sandbox, collection, saves >>

\* parse_project_markdown(raw_markdown)
ParseProject ==
    /\ parser.pc = "project"
    /\ LET result == ParseProjectMarkdown(parser.text)
       IN parser' = [parser EXCEPT !.pc = IF result.ok THEN "parsed" ELSE "rejected",
                                   !.result = result]
    /\ UNCHANGED << pipeline, sandbox, collection, saves >>

\* parse_project_markdown(project.raw_markdown) on the document returned
ReparseProject ==
    /\ parser.pc = "parsed"
    /\ parser' = [parser EXCEPT !.pc = "reparsed",
                                !.again = ParseProjectMarkdown(parser.result.project.raw_markdown)]
    /\ UNCHANGED << pipeline, sandbox, collection, saves >>

\* parse_llm_ranker_scores on a reply that holds a JSON array
ParseScores ==
    /\ parser.pc = "scores"
    /\ parser' = [parser EXCEPT !.pc = "scored",
                                !.result = ParseLlmRankerScores(parser.text)]
    /\ UNCHANGED << pipeline, sandbox, collection, saves >>

\* one topic, every loop bound
Spec == Init /\ [][Next]_vars

\* two topics running concurrently
BatchSpec == BatchInit /\ [][BatchNext]_vars

\* the topic extraction alone, over every reply
TopicsInit == InitWith(<<"t1", "t2">>, {0}, {0})
TopicsNext == ExtractTopics
TopicsSpec == TopicsInit /\ [][TopicsNext]_vars

\* one call of run_code, for every runner, program and timeout argument;
\* the programs: the empty string, a blank string, a program that exits
\* with 0, one that exits with 1, one that never exits, and a string
\* holding a lone surrogate, which str.encode("utf-8") rejects; the compose
\* runner executes in a container that is already running
SandboxInit ==
    /\ PipelineInit(<<"t1">>, {0}, {0})
    /\ sandbox \in
         { [SandboxIdle EXCEPT !.pc = "call", !.runner = r, !.code = c,
                               !.timeout_seconds = t,
                               !.container = IF r = "compose" THEN "running" ELSE "none"] :
             r \in {"docker", "compose"},
             c \in {"", "  ", "print(1)", "raise", "while True: pass", "surrogate"},
             t \in {NoTimeout, Timeout(0), Timeout(3)} }
    /\ collection = <<>>
    /\ saves = <<>>
    /\ parser = ParserIdle
SandboxNext == RunCode \/ CreateSubprocess \/ Communicate \/ Reap \/ Cancel
SandboxSpec == SandboxInit /\ [][SandboxNext]_vars

\* a sequence of saves on a store that holds the entry for "s1"
RagInit ==
    /\ PipelineInit(<<"t1">>, {0}, {0})
    /\ sandbox = SandboxIdle
    /\ collection = << SavedEntry(Stored1.topic, Stored1.project) >>
    /\ saves = <<>>
    /\ parser = ParserIdle
RagNext == RagSave
RagSpec == RagInit /\ [][RagNext]_vars

\* one stage called on a state of its own, as the unit tests call it: the
\* validator and the autotest check on a ProcessTopicAgentState with or
\* without a project, the learner check on a FeedbackAgentState (whose
\* project is never None)
StageInit ==
    /\ comments = <<"t1">> /\ topics = <<>> /\ topic2project = <<>>
    /\ cfgN = 0 /\ cfgM = 0
    /\ store = PreStored
    /\ saveLog = [p \in Procs |-> <<>>]
    /\ topics_value = <<>>
    /\ sandbox = SandboxIdle
    /\ collection = <<>>
    /\ saves = <<>>
    /\ parser = ParserIdle
    /\ \E call \in {"call_validate", "call_check_autotest", "call_check_user_solution"},
          p \in {NoProject, Project(1, 1, TRUE), Project(1, 1, FALSE)},
          c \in Lookups(PreStored),
          v \in {"none", "valid", "invalid"} :
         /\ call = "call_check_user_solution" => p # NoProject /\ c = <<>> /\ v = "none"
         /\ FramesInit([q \in Procs |->
                IF q = 1
                THEN [FreshFrame("t1") EXCEPT !.pc = call, !.project = p,
                                              !.docs = IF p = NoProject THEN 0 ELSE 1,
                                              !.candidates = c, !.validation_result = v]
                ELSE FreshFrame("")])
StageNext ==
    \/ ValidatorCalled
    \/ ValidateAttempt(1)
    \/ CheckAutotestCalled
    \/ CheckUserSolutionCalled
StageSpec == StageInit /\ [][StageNext]_vars

\* one call of a parser: parse_markdown_headers on every text of up to
\* MaxLines lines, parse_project_markdown on every text of ProjectTexts (and
\* then on its own output), parse_llm_ranker_scores on every array of up to
\* MaxScores elements
ParserInit ==
    /\ PipelineInit(<<"t1">>, {0}, {0})
    /\ sandbox = SandboxIdle
    /\ collection = <<>>
    /\ saves = <<>>
    /\ parser \in
         { ParserCall("headers", text) :
             text \in SeqsUpTo({ HeaderLine("H"), TextLine("x"),
                                 [kind |-> "blank", ticks |-> <<>>, name |-> "", lang |-> ""],
                                 RunLine(Backticks(3), ""), RunLine(Backticks(4), ""),
                                 RunLine(Tildes(3), ""),
                                 RunLine(Backticks(3) \o Tildes(1), "") },
                               MaxLines) }
         \cup { ParserCall("project", text) : text \in ProjectTexts }
         \cup { ParserCall("scores", loaded) : loaded \in SeqsUpTo(JsonItems, MaxScores) }
ParserNext == ParseHeaders \/ ParseProject \/ ReparseProject \/ ParseScores
ParserSpec == ParserInit /\ [][ParserNext]_vars

\* ------------------------------------------------------- claim vocabulary
Last(s) == s[Len(s)]
Count(s, x) == Cardinality({ k \in 1..Len(s) : s[k] = x })
Pipes == 1..Len(topics)
Finished(i) == pc[i] \in {"returned", "raised"}
RetryPositions == {"define", "rank", "generate", "validate", "correct",
                   "final_validate", "bugfix"}
StageAt(position) ==
    CASE position = "define" -> "DEFINE_TOPICS"
      [] position = "rank" -> "RANK"
      [] position = "generate" -> "GENERATE"
      [] position \in {"validate", "final_validate"} -> "VALIDATE"
      [] position = "correct" -> "CORRECT"
      [] position = "bugfix" -> "BUGFIX"
      [] OTHER -> "NONE"

\* the answers given to the finished invocations of one stage, in order
AnswersTo(i, stage) ==
    LET idx == { k \in 1..Len(outcomes[i]) : trace[i][k] = stage }
        RECURSIVE Pick(_, _)
        Pick(k, acc) == IF k > Len(outcomes[i]) THEN acc
                        ELSE IF k \in idx THEN Pick(k + 1, Append(acc, outcomes[i][k]))
                        ELSE Pick(k + 1, acc)
    IN Pick(1, <<>>)

InBatchResult(i) ==
    \E k \in 1..Len(topic2project) :
        topic2project[k] = Topic2Project(topic[i], project[i])

\* ------------------------------------------------------------------- C1
C1_Bounds ==
    \A i \in Slots :
        /\ llmCalls[i] <= 3 * (3 + 2 * cfgN + cfgM)
        /\ sandboxRuns[i] <= cfgM + 1

\* a run makes progress as long as it has not finished, and every step
\* that does not finish it raises C1_Measure, which is bounded: the run
\* takes at most C1_MeasureBound steps
C1_Measure(i) == llmCalls[i] + sandboxRuns[i] + Len(trace[i])
C1_MeasureBound == 3 * (3 + 2 * cfgN + cfgM) + (cfgM + 1) + (2 * cfgN + 2 * cfgM + 6)

C1_Progress ==
    \A i \in Slots :
        /\ C1_Measure(i) <= C1_MeasureBound
        /\ (pc[i] # "unborn" /\ ~Finished(i)) => ENABLED Step(i)

C1_Variant ==
    \A i \in Slots :
        (pc[i] # "unborn" /\ << pc[i], llmCalls[i], sandboxRuns[i], trace[i], attempt[i] >>
                             # << pc'[i], llmCalls'[i], sandboxRuns'[i], trace'[i], attempt'[i] >>)
        => \/ pc'[i] \in {"returned", "raised"}
           \/ C1_Measure(i)' > C1_Measure(i)

\* C1: every process_topic run terminates (returns or raises) after at most
\* 3*(3 + 2N + M) model queries and at most M + 1 sandbox runs, where
\* N = project_correction_attempts and M = bug_fix_attempts.
C1_RunIsBounded == [](C1_Bounds /\ C1_Progress) /\ [][C1_Variant]_vars

\* a run with the default N = M = 3 that used all 36 queries and 4 sandbox runs
C1_Witness ==
    \E i \in Slots :
        /\ pc[i] = "returned" /\ cfgN = 3 /\ cfgM = 3
        /\ llmCalls[i] = 36 /\ sandboxRuns[i] = 4

\* ------------------------------------------------------------------- C2
\* C2: save is called only while the run holds a non-null project whose
\* validation_result is valid; a run whose latest VALIDATE reported invalid
\* has made no save call and is not about to make one.
C2_SaveOnlyWhenValid ==
    \A i \in Slots :
        /\ \A k \in 1..Len(saveLog[i]) :
              /\ saveLog[i][k].project # NoProject
              /\ saveLog[i][k].validation_result = "valid"
        /\ pc[i] = "save" => project[i] # NoProject /\ validation_result[i] = "valid"
        /\ ( AnswersTo(i, "VALIDATE") # <<>> /\ Last(AnswersTo(i, "VALIDATE")) = "invalid" )
              => saveLog[i] = <<>> /\ pc[i] # "save" /\ Count(trace[i], "SAVE") = 0

\* a run that saved after a VALIDATE said valid
C2_Witness ==
    \E i \in Slots :
        /\ pc[i] = "returned" /\ Len(saveLog[i]) = 1
        /\ Last(AnswersTo(i, "VALIDATE")) = "valid"

\* ------------------------------------------------------------------- C3
EndedValid(i) ==
    \/ Count(outcomes[i], "high") > 0 /\ Count(trace[i], "GENERATE") = 0
    \/ AnswersTo(i, "VALIDATE") # <<>> /\ Last(AnswersTo(i, "VALIDATE")) = "valid"

\* C3: a topic has an exercise in the batch result only if its run ended
\* valid (adopted from retrieval, or its last VALIDATE said valid); a
\* generated-but-invalid topic has no entry.
C3_OnlyValidRunsInResult ==
    pc[0] = "done" =>
        \A i \in Pipes : (pc[i] = "returned" /\ InBatchResult(i)) => EndedValid(i)

\* ------------------------------------------------------------------- C4
\* C4: when every VALIDATE of the correction loop (N of them, each followed
\* by a CORRECT) and the final VALIDATE said invalid, the run is left with
\* the document GENERATE produced (none of the corrected drafts) and with
\* validation_result cleared.
C4_RollbackToPreLoop ==
    \A i \in Slots :
        ( /\ pc[i] = "returned"
          /\ Len(AnswersTo(i, "VALIDATE")) = cfgN + 1
          /\ Count(AnswersTo(i, "VALIDATE"), "invalid") = cfgN + 1 )
        => /\ project[i].owner = i /\ project[i].n = 1
           /\ validation_result[i] = "none"

\* three corrections were parsed, all judged invalid; the run ends on document 1
C4_Witness ==
    \E i \in Slots :
        /\ pc[i] = "returned" /\ cfgN = 3
        /\ Count(AnswersTo(i, "VALIDATE"), "invalid") = 4
        /\ Count(trace[i], "CORRECT") = 3 /\ docs[i] = 4
        /\ project[i].n = 1

\* ------------------------------------------------------------------- C5
\* C5: when some of the concurrent pipelines raise, execute still waits for
\* every other pipeline to finish, and each pipeline that returned with a
\* project has exactly its own (topic, project) in the batch result.
C5_SiblingsUnaffected ==
    ( pc[0] \in {"done", "raised"} /\ topics # <<>> ) =>
        \A i \in Pipes :
            /\ Finished(i)
            /\ (pc[i] = "returned" /\ project[i] # NoProject) => InBatchResult(i)

\* one pipeline raised, its sibling returned and is in the result
C5_Witness ==
    /\ pc[0] = "done"
    /\ \E i, j \in Pipes :
        /\ pc[i] = "raised"
        /\ pc[j] = "returned" /\ project[j] # NoProject /\ InBatchResult(j)

\* ------------------------------------------------------------------- C6
\* C6 (as claimed): execute never raises.
C6_NeverRaises == pc[0] # "raised"

\* C6 (amended): execute raises only out of the topic-extraction stage,
\* before any pipeline exists; once the topics are extracted it returns
\* normally whatever the pipelines do.
C6_RaisesOnlyInTopicExtraction ==
    /\ pc[0] = "raised" =>
         /\ trace[0] = <<"DEFINE_TOPICS">> /\ outcomes[0] = <<>>
         /\ topics = <<>>
         /\ \A i \in Slots : pc[i] = "unborn"
    /\ (\E i \in Slots : pc[i] # "unborn") => pc[0] \in {"gather", "done"}

\* every pipeline raised and execute still returned, with an empty result
C6_Witness ==
    /\ pc[0] = "done" /\ topics # <<>>
    /\ \A i \in Pipes : pc[i] = "raised"
    /\ topic2project = <<>>

\* ------------------------------------------------------------------- C7
\* the message list a stage sends on its k-th call: the (system, user) pair
\* followed by k-1 pairs (assistant: j-th failed reply, user: corrective)
C7_PromptShape(p) ==
    LET k == attempt[p]
        stage == StageAt(pc[p])
    IN /\ k \in 1..3
       /\ stageCalls[p] = k - 1
       /\ Len(msgs[p]) = 2 * k
       /\ msgs[p][1].role = "system" /\ msgs[p][1].stage = stage
       /\ msgs[p][2].role = "user" /\ msgs[p][2].kind = "prompt"
       /\ \A j \in 1..(k - 1) :
            /\ msgs[p][2 * j + 1] = Message("assistant", "reply", stage, j)
            /\ msgs[p][2 * j + 2] = Message("user", "corrective", stage, j)

C7_StageStep(p) ==
    (pc[p] \in RetryPositions /\ << pc[p], attempt[p], stageCalls[p] >>
                                   # << pc'[p], attempt'[p], stageCalls'[p] >>)
    => \/ \* the reply did not parse and attempts remain: one more call
          /\ pc'[p] = pc[p] /\ attempt[p] < 3
          /\ attempt'[p] = attempt[p] + 1 /\ stageCalls'[p] = attempt[p]
       \/ \* the stage raises: a parse error only after the third call
          /\ pc'[p] = "raised" /\ stageCalls'[p] = attempt[p]
          /\ error'[p].kind \in {"OutputParserException", "Exception"}
               /\ error'[p].reply # 0
             => attempt[p] = 3 /\ error'[p].reply = 3
       \/ \* the k-th reply parsed: the stage is left after exactly k calls
          /\ pc'[p] \notin {pc[p], "raised"} /\ stageCalls[p] = attempt[p] - 1
          /\ p # 0 => llmCalls'[p] = llmCalls[p] + 1
          /\ Len(outcomes'[p]) = Len(outcomes[p]) + 1

\* C7: in every retrying stage the k-th call (k <= 3) carries the initial
\* (system, user) pair followed by the k-1 failed replies, each with its
\* corrective instruction, in order; a reply that parses ends the stage
\* after exactly k calls, and three failures raise the last parse error
\* after exactly 3 calls.
C7_RetryProtocol ==
    /\ [](\A p \in Procs : pc[p] \in RetryPositions => C7_PromptShape(p))
    /\ [][\A p \in Procs : C7_StageStep(p)]_vars

\* Scenario C: GENERATE is about to make its third call after two failures
C7_Witness ==
    \E i \in Slots :
        /\ pc[i] = "generate" /\ attempt[i] = 3 /\ Len(msgs[i]) = 6

\* ------------------------------------------------------------------- C8
C8_Exhausted(i) ==
    pc[i] = "raised" /\ error[i].kind = "OutputParserException"

\* C8: a run whose stage exhausted its 3 parse attempts ends with that
\* error: no later stage is entered, save is never called, the run takes no
\* further step, and the topic has no entry in the batch result.
C8_ExhaustionIsFatal ==
    /\ [](\A i \in Slots : C8_Exhausted(i) =>
            /\ stageCalls[i] = 3 /\ error[i].reply = 3
            /\ Last(trace[i]) \in {"RANK", "GENERATE", "VALIDATE", "CORRECT", "BUGFIX"}
            /\ Len(outcomes[i]) = Len(trace[i]) - 1
            /\ saveLog[i] = <<>> /\ Count(trace[i], "SAVE") = 0
            /\ pc[0] = "done" =>
                 \A k \in 1..Len(topic2project) : topic2project[k].topic # topics[i])
    /\ [][\A i \in Slots : C8_Exhausted(i) =>
            /\ pc'[i] = pc[i] /\ trace'[i] = trace[i]
            /\ llmCalls'[i] = llmCalls[i] /\ sandboxRuns'[i] = sandboxRuns[i]
            /\ saveLog'[i] = saveLog[i] /\ project'[i] = project[i]]_vars

\* the bug fixer exhausted its attempts on a valid project; the batch is done
C8_Witness ==
    \E i \in Slots :
        /\ C8_Exhausted(i) /\ Last(trace[i]) = "BUGFIX"
        /\ project[i] # NoProject /\ validation_result[i] = "valid"
        /\ pc[0] = "done" /\ topic2project = <<>>

\* ------------------------------------------------------------------- C9
C9_ScenarioA(i) ==
    /\ pc[i] = "returned"
    /\ AnswersTo(i, "RETRIEVE") = <<"none">>
    /\ AnswersTo(i, "GENERATE") = <<"parsed">>
    /\ AnswersTo(i, "VALIDATE") # <<>> /\ Head(AnswersTo(i, "VALIDATE")) = "valid"
    /\ AnswersTo(i, "VERIFY") # <<>> /\ Head(AnswersTo(i, "VERIFY")) = "pass"

\* C9 (Scenario A): with no candidates, a GENERATE that parses, a first
\* VALIDATE that is valid and a first VERIFY that passes, the run performs
\* retrieve, generate, validate, verify, save in exactly that order (no
\* RANK, CORRECT or BUGFIX), calls save exactly once, and the topic is in
\* the batch result.
C9_HappyPath ==
    \A i \in Slots : C9_ScenarioA(i) =>
        /\ trace[i] = <<"RETRIEVE", "GENERATE", "VALIDATE", "VERIFY", "SAVE">>
        /\ Len(saveLog[i]) = 1
        /\ saveLog[i][1].project = project[i]
        /\ topic[i] = topics[i]
        /\ pc[0] = "done" => InBatchResult(i)

C9_Witness ==
    \E i \in Slots : C9_ScenarioA(i) /\ pc[0] = "done" /\ Len(topic2project) = 1

\* ------------------------------------------------------------------ C10
\* C10 (Scenario B): when the ranking reply gives the best candidate a score
\* >= the similarity threshold, the run adopts that candidate's exercise
\* (and topic), returns at once and never invokes GENERATE, VALIDATE,
\* CORRECT, VERIFY or BUGFIX.
C10_AdoptSkipsGeneration ==
    \A i \in Slots : Count(outcomes[i], "high") > 0 =>
        /\ Len(rankScores[i]) = Len(candidates[i])
        /\ \E k \in 1..Len(candidates[i]) :
              /\ rankScores[i][k] >= SimilarityThreshold
              /\ \A j \in 1..Len(rankScores[i]) : rankScores[i][j] <= rankScores[i][k]
              /\ project[i] = candidates[i][k].project
              /\ topic[i] = candidates[i][k].topic
        /\ project[i] # NoProject
        /\ pc[i] = "returned"
        /\ trace[i] = <<"RETRIEVE", "RANK">>
        /\ llmCalls[i] <= 3 /\ sandboxRuns[i] = 0

\* of two candidates the second scored higher, was adopted and went into
\* the batch result
C10_Witness ==
    \E i \in Slots :
        /\ Count(outcomes[i], "high") > 0 /\ pc[i] = "returned"
        /\ Len(candidates[i]) = 2 /\ rankScores[i][1] < rankScores[i][2]
        /\ project[i] = candidates[i][2].project
        /\ pc[0] = "done" /\ InBatchResult(i)

\* ------------------------------------------------------------------ C11
\* the ranking stage adopted a retrieved exercise for the run
Adopted(i) == Count(outcomes[i], "high") > 0

\* C11 (as claimed): a run that adopted a retrieved exercise has called save
\* for the topic by the time it returns.
C11_AdoptedIsSaved ==
    \A i \in Slots : (Adopted(i) /\ pc[i] = "returned") => Len(saveLog[i]) >= 1

\* C11 (amended): a run that adopted a retrieved exercise returns right
\* after RANK without any save call; the exercise still goes into the batch
\* result.
C11_AdoptedIsNotSaved ==
    \A i \in Slots : Adopted(i) =>
        /\ pc[i] = "returned"
        /\ saveLog[i] = <<>> /\ Count(trace[i], "SAVE") = 0
        /\ Last(trace[i]) = "RANK"
        /\ pc[0] = "done" => InBatchResult(i)

\* the stored exercise was adopted, the batch is done, the store was not
\* written
C11_Witness ==
    \E i \in Slots :
        /\ Adopted(i) /\ pc[i] = "returned" /\ pc[0] = "done"
        /\ saveLog[i] = <<>> /\ store = PreStored
        /\ Len(topic2project) = 1

\* ------------------------------------------------------------------ C12
\* a CORRECT invocation of the run ended without a document: it was entered
\* and the corrector exhausted its attempts
CorrectYieldedNothing(i) ==
    /\ Count(trace[i], "CORRECT") > 0
    /\ \/ Count(AnswersTo(i, "CORRECT"), "none") > 0
       \/ C8_Exhausted(i) /\ Last(trace[i]) = "CORRECT"

\* C12 (Scenario D): when a CORRECT invocation yields no document the run
\* restores the pre-loop snapshot, leaves the loop and runs the final
\* VALIDATE on it: the finished run returned, its last model stage after
\* the failed CORRECT is a VALIDATE and it holds the snapshot (saved if
\* that VALIDATE passed, validation cleared if not).
C12_FailedCorrectRollsBack ==
    \A i \in Slots : (Finished(i) /\ CorrectYieldedNothing(i)) =>
        /\ pc[i] = "returned"
        /\ \E k \in 1..(Len(trace[i]) - 1) :
              trace[i][k] = "CORRECT" /\ trace[i][k + 1] = "VALIDATE"
              /\ \A j \in (k + 1)..Len(trace[i]) : trace[i][j] # "CORRECT"
        /\ project[i] = previous_version[i]

\* ------------------------------------------------------------------ C13
\* C13: the sandbox is invoked (VERIFY is entered) for a run only after a
\* VALIDATE of that run answered valid and while the run holds that valid
\* result; it is never invoked for an adopted run, nor for a run whose
\* validate/correct phase ended invalid.
C13_SandboxOnlyAfterValid ==
    /\ [](\A i \in Slots :
            /\ (sandboxRuns[i] > 0 \/ Count(trace[i], "VERIFY") > 0) =>
                  /\ Count(AnswersTo(i, "VALIDATE"), "valid") > 0
                  /\ Last(AnswersTo(i, "VALIDATE")) = "valid"
                  /\ validation_result[i] = "valid"
                  /\ ~Adopted(i))
    /\ [][\A i \in Slots :
            (\/ sandboxRuns'[i] # sandboxRuns[i]
             \/ (Len(trace'[i]) # Len(trace[i]) /\ Last(trace'[i]) = "VERIFY"))
            => validation_result'[i] = "valid" /\ project'[i] # NoProject]_vars

\* the first draft was judged invalid, its correction valid, and the
\* sandbox ran the corrected exercise
C13_Witness ==
    \E i \in Slots :
        /\ sandboxRuns[i] = 1 /\ AnswersTo(i, "VALIDATE") = <<"invalid", "valid">>
        /\ project[i].n = 2

\* ------------------------------------------------------------------ C14
\* the synthetic result of a VERIFY on an autotest without the placeholder
C14_Synthetic(r) == r.exit_code = 1 /\ ~r.timed_out /\ r.stderr = "placeholder missing"

\* C14: a VERIFY on an exercise whose autotest lacks the placeholder does
\* not invoke the sandbox and records exit_code = 1, timed_out = false; the
\* bug-fix loop takes it for a failed VERIFY (the bug fixer is entered if
\* an attempt is left, otherwise the exercise goes to save as it is).
C14_MissingPlaceholder ==
    [][\A i \in Slots :
        (pc[i] \in {"verify", "reverify"} /\ ~project[i].ph
                                          /\ Len(outcomes'[i]) # Len(outcomes[i]))
        => /\ sandboxRuns'[i] = sandboxRuns[i]
           /\ C14_Synthetic(execution_result'[i])
           /\ Last(outcomes'[i]) = "fail"
           /\ pc'[i] = IF (IF pc[i] = "verify" THEN 1 ELSE loopAttempt[i] + 1) <= cfgM
                       THEN "bugfix" ELSE "save"]_vars

\* the first VERIFY found no placeholder: no sandbox run, bug fixer entered
C14_Witness ==
    \E i \in Slots :
        /\ pc[i] = "bugfix" /\ sandboxRuns[i] = 0 /\ ~project[i].ph
        /\ C14_Synthetic(execution_result[i])
        /\ Count(trace[i], "VERIFY") = 1

\* ------------------------------------------------------------------ C15
\* C15: BUGFIX is entered only right after a VERIFY that failed; a BUGFIX
\* that produced a document is followed by exactly one VERIFY; nothing but
\* the save follows a VERIFY that passed.
C15_BugFixLoop ==
    \A i \in Slots :
        /\ pc[i] = "bugfix" => Failing(execution_result[i])
        /\ \A k \in 1..Len(trace[i]) :
              /\ trace[i][k] = "BUGFIX" =>
                    /\ k > 1 /\ trace[i][k - 1] = "VERIFY" /\ outcomes[i][k - 1] = "fail"
                    /\ k <= Len(outcomes[i]) =>
                          /\ k < Len(trace[i]) /\ trace[i][k + 1] = "VERIFY"
                          /\ k + 2 <= Len(trace[i]) => trace[i][k + 2] # "VERIFY"
              /\ (trace[i][k] = "VERIFY" /\ k <= Len(outcomes[i]) /\ outcomes[i][k] = "pass") =>
                    \A j \in (k + 1)..Len(trace[i]) : trace[i][j] = "SAVE"

\* two bug fixes, the second one made the autotest pass, then the save
C15_Witness ==
    \E i \in Slots :
        /\ pc[i] = "returned"
        /\ AnswersTo(i, "VERIFY") = <<"fail", "fail", "pass">>
        /\ Count(trace[i], "BUGFIX") = 2 /\ Last(trace[i]) = "SAVE"

\* ------------------------------------------------------------------ C16
\* every VERIFY of the run failed and all M bug-fix attempts were used, each
\* of them having produced a document
C16_BugFixExhausted(i) ==
    /\ Len(AnswersTo(i, "VERIFY")) = cfgM + 1
    /\ Count(AnswersTo(i, "VERIFY"), "fail") = cfgM + 1
    /\ Len(AnswersTo(i, "BUGFIX")) = cfgM

\* C16: when VERIFY still fails after all M bug-fix attempts, the run keeps
\* the last bug-fixed exercise with its last failing execution result,
\* calls save for it, and (the save having returned) the topic is in the
\* batch result.
C16_KeptAndSavedAfterExhaustion ==
    \A i \in Slots : C16_BugFixExhausted(i) =>
        /\ project[i] # NoProject /\ project[i].n = docs[i]
        /\ Failing(execution_result[i])
        /\ \/ pc[i] = "save"
           \/ (Finished(i) /\ Len(saveLog[i]) = 1 /\ saveLog[i][1].project = project[i])
        /\ (pc[i] = "returned" /\ pc[0] = "done") => InBatchResult(i)

\* M = 3: four failing autotest runs, three bug fixes, saved and returned
C16_Witness ==
    \E i \in Slots :
        /\ cfgM = 3 /\ C16_BugFixExhausted(i) /\ pc[i] = "returned" /\ pc[0] = "done"
        /\ Len(saveLog[i]) = 1 /\ InBatchResult(i)
        /\ execution_result[i].timed_out

\* ------------------------------------------------------------------ C17
\* the run of the i-th requested topic contributed its exercise to the result
C17_HasExercise(i) == pc[i] = "returned" /\ project[i] # NoProject /\ InBatchResult(i)

\* C17: the state execute returns names every requested topic that got no
\* exercise: the topic has an entry of its own, without a project, in
\* topic2project (the only place of the returned state that could say so).
C17_DroppedTopicsReported ==
    pc[0] = "done" =>
        \A i \in Pipes : ~C17_HasExercise(i) =>
            \E k \in 1..Len(topic2project) :
                /\ topic2project[k].topic = topics[i]
                /\ topic2project[k].project = NoProject

\* ------------------------------------------------------------------ C18
\* the step in which the ranking stage of run i parsed a reply
C18_Ranked(i) == pc[i] = "rank" /\ Len(outcomes'[i]) # Len(outcomes[i])

\* C18: after a ranking reply with one score per candidate the run adopts
\* iff the maximal score is >= the threshold; it adopts the first candidate
\* with the maximal score, taking its exercise and its topic, and returns;
\* otherwise the exercise stays absent, the topic is unchanged and the run
\* goes on to GENERATE.  The candidate list is never modified.
C18_AdoptIffThreshold ==
    [][\A i \in Slots :
        /\ pc[i] \notin {"unborn", "retrieve"} => candidates'[i] = candidates[i]
        /\ C18_Ranked(i) =>
             LET sc == rankScores'[i]
                 cs == candidates[i]
             IN /\ Len(sc) = Len(cs)
                /\ IF \E k \in 1..Len(sc) : sc[k] >= SimilarityThreshold
                   THEN \E k \in 1..Len(sc) :
                          /\ \A j \in 1..Len(sc) : sc[j] <= sc[k]
                          /\ \A j \in 1..(k - 1) : sc[j] < sc[k]
                          /\ project'[i] = cs[k].project /\ topic'[i] = cs[k].topic
                          /\ pc'[i] = "returned"
                   ELSE /\ project'[i] = NoProject /\ topic'[i] = topic[i]
                        /\ pc'[i] = "generate" /\ Last(trace'[i]) = "GENERATE"]_vars

\* two different candidates both scored exactly the threshold: the first
\* one was adopted
C18_Witness ==
    \E i \in Slots :
        /\ Len(candidates[i]) = 2 /\ candidates[i][1] # candidates[i][2]
        /\ rankScores[i] = << SimilarityThreshold, SimilarityThreshold >>
        /\ project[i] = candidates[i][1].project /\ topic[i] = candidates[i][1].topic
        /\ pc[i] = "returned"

\* ------------------------------------------------------------------ C19
\* the step in which the ranking stage of run i received a reply that
\* parses to a list of scores of the wrong length
C19_Mismatched(i) ==
    /\ pc[i] = "rank" /\ stageCalls'[i] # stageCalls[i]
    /\ error'[i].kind # "TransportError"        \* the call returned a reply
    /\ response'[i].parses /\ Len(response'[i].scores) # Len(candidates[i])

\* C19: a ranking reply whose number of scores differs from the number of
\* candidates selects nothing: it uses up one of the 3 attempts like a
\* parse failure (corrective retry, or the parse error after the third),
\* so the scores a ranking stage ends with are one per candidate.
C19_MismatchIsParseFailure ==
    /\ [](\A i \in Slots : AnswersTo(i, "RANK") # <<>> =>
                                Len(rankScores[i]) = Len(candidates[i]))
    /\ [][\A i \in Slots : C19_Mismatched(i) =>
            /\ project'[i] = NoProject /\ topic'[i] = topic[i]
            /\ rankScores'[i] = rankScores[i] /\ outcomes'[i] = outcomes[i]
            /\ stageCalls'[i] = attempt[i]
            /\ IF attempt[i] < MaxParseAttempts
               THEN /\ pc'[i] = "rank" /\ attempt'[i] = attempt[i] + 1
                    /\ msgs'[i] = msgs[i] \o
                         << Message("assistant", "reply", "RANK", attempt[i]),
                            Message("user", "corrective", "RANK", attempt[i]) >>
               ELSE /\ pc'[i] = "raised"
                    /\ error'[i] = ParseError(MaxParseAttempts)]_vars

\* the single candidate got two scores, one of them above the threshold:
\* nothing was adopted and the stage is about to make its second call
C19_Witness ==
    \E i \in Slots :
        /\ pc[i] = "rank" /\ attempt[i] = 2 /\ Len(candidates[i]) = 1
        /\ response[i].parses /\ Len(response[i].scores) = 2
        /\ \E k \in 1..2 : response[i].scores[k] > SimilarityThreshold
        /\ project[i] = NoProject

\* ------------------------------------------------------------------ C20
\* the first position of the reply that holds the label t, padded or not
C20_First(t) ==
    CHOOSE k \in 1..Len(topics_value) :
        /\ topics_value[k] \in {StrEntry(t), StrEntry(Padded(t))}
        /\ \A j \in 1..(k - 1) : topics_value[j] \notin {StrEntry(t), StrEntry(Padded(t))}

C20_Mentioned ==
    { t \in Range(comments) :
        \E k \in 1..Len(topics_value) :
            topics_value[k] \in {StrEntry(t), StrEntry(Padded(t))} }

\* C20: for a topic-extraction reply that parses, the topics fanned out are
\* non-empty trimmed strings (the labels the reply mentions, without their
\* padding), no two equal, in the order of their first occurrence; blank
\* and non-string entries are dropped and nothing is raised.
C20_TopicsNormalized ==
    pc[0] # "define" =>
        /\ pc[0] \in {"gather", "done"}
        /\ \A k \in 1..Len(topics) : topics[k] \in Range(comments)
        /\ Distinct(topics)
        /\ Range(topics) = C20_Mentioned
        /\ \A a, b \in 1..Len(topics) :
              a < b => C20_First(topics[a]) < C20_First(topics[b])
        /\ \A k \in 1..Len(topics) : pc[k] = "retrieve" /\ topic[k] = topics[k]

\* a padded label, a non-string and a plain label: two topics, in order
C20_Witness ==
    /\ topics_value = << StrEntry(" t2 "), OtherEntry, StrEntry("t1") >>
    /\ topics = <<"t2", "t1">>
    /\ pc[0] = "gather"

\* ------------------------------------------------------------------ C21
\* C21: run_code ends with ValueError without calling the runner when the
\* code is empty or only white space; for any other code it calls the
\* runner's run exactly once, with the service default as timeout when the
\* caller gave none and with the caller's timeout otherwise.
C21_BlankRejectedElseOneRun ==
    sandbox.pc \notin {"idle", "call"} =>
        IF sandbox.code \in {"", "  "}
        THEN /\ sandbox.pc = "raised"
             /\ sandbox.error = "ValueError"
             /\ sandbox.runs = 0
             /\ sandbox.client = "none"
        ELSE /\ sandbox.runs = 1
             /\ sandbox.error # "ValueError"
             /\ sandbox.effective_timeout =
                  IF sandbox.timeout_seconds.given
                  THEN sandbox.timeout_seconds.seconds
                  ELSE DefaultTimeoutSeconds

\* a white-space program was rejected
C21_Witness ==
    /\ sandbox.code = "  "
    /\ sandbox.pc = "raised"
    /\ sandbox.runs = 0

\* ------------------------------------------------------------------ C22
\* C22: once called, a runner's run never raises; it returns a result, and
\* a result that reports a fault of the environment has exit_code = 1 and
\* timed_out = FALSE.
C22_RunnerNeverRaises ==
    sandbox.runs > 0 =>
        /\ sandbox.pc # "raised"
        /\ sandbox.pc = "returned" => sandbox.result # NoResult
        /\ (sandbox.pc = "returned" /\ sandbox.result.stderr = "docker failed") =>
              sandbox.result.exit_code = 1 /\ ~sandbox.result.timed_out

\* ------------------------------------------------------------------ C23
\* C23: a run that returns timed_out = TRUE has left nothing behind: the
\* docker client and the executed program are no longer running, and the
\* container that DockerPythonRunner started is removed.
C23_TimeoutReclaims ==
    (sandbox.pc = "returned" /\ sandbox.result.timed_out) =>
        /\ sandbox.client # "running"
        /\ sandbox.program # "running"
        /\ sandbox.runner = "docker" => sandbox.container = "removed"

\* ------------------------------------------------------------------ C24
\* C24: every (topic, exercise) that was saved is held by the store exactly
\* once, however often it was saved, and entries that differ in topic or in
\* exercise text are held under different keys.
C24_SaveKeyedByContent ==
    /\ \A k \in 1..Len(saves) :
          Cardinality({ j \in 1..Len(collection) : collection[j].metadata = saves[k] }) = 1
    /\ \A i, j \in 1..Len(collection) :
          collection[i].metadata # collection[j].metadata => collection[i].id # collection[j].id

\* ------------------------------------------------------------------ C25
\* the length of the run of one character that the line starts with
RECURSIVE C25_SameRun(_, _)
C25_SameRun(ticks, k) ==
    IF k < Len(ticks) /\ ticks[k + 1] = ticks[1] THEN C25_SameRun(ticks, k + 1) ELSE k

\* a fence line: at least three backticks, or at least three tildes
C25_IsFence(line) == line.kind = "run" /\ C25_SameRun(line.ticks, 1) >= 3

\* the fence that is open after the first k lines: opened by a fence line
\* of n characters, closed by the first later fence line of the same
\* character that is at least as long
RECURSIVE C25_OpenFence(_, _)
C25_OpenFence(text, k) ==
    IF k = 0 THEN [open |-> FALSE, char |-> "", len |-> 0]
    ELSE LET before == C25_OpenFence(text, k - 1)
             line == text[k]
         IN IF ~C25_IsFence(line) THEN before
            ELSE IF ~before.open
                 THEN [open |-> TRUE, char |-> line.ticks[1],
                       len |-> C25_SameRun(line.ticks, 1)]
            ELSE IF line.ticks[1] = before.char /\ C25_SameRun(line.ticks, 1) >= before.len
                 THEN [open |-> FALSE, char |-> "", len |-> 0]
            ELSE before

\* line k lies between an opening fence and the fence line that closes it
C25_Fenced(text, k) ==
    /\ C25_OpenFence(text, k - 1).open
    /\ ~C25_IsFence(text[k])
    /\ \E c \in (k + 1)..Len(text) : ~C25_OpenFence(text, c).open

\* C25: a header line between a fence opened with N >= 3 backticks (or
\* tildes) and the first later fence line of the same character with at
\* least N of them is not reported as a section; when a section encloses
\* it, the line is part of that section's content.
C25_FencedHeadersIgnored ==
    parser.pc = "done" =>
        \A k \in 1..Len(parser.text) :
            (HeaderMatch(parser.text[k]) /\ C25_Fenced(parser.text, k)) =>
                /\ \A n \in 1..Len(parser.sections) : parser.sections[n].at # k
                /\ (\E n \in 1..Len(parser.sections) : parser.sections[n].at < k) =>
                      \E n \in 1..Len(parser.sections) :
                          /\ parser.sections[n].at < k
                          /\ parser.text[k] \in Range(parser.sections[n].content)

\* ------------------------------------------------------------------ C26
\* C26: when parse_project_markdown returns a document, parsing the
\* raw_markdown of that document returns a document equal to it in every
\* field.
C26_ParseIsIdempotent ==
    parser.pc = "reparsed" =>
        parser.again.ok /\ parser.again.project = parser.result.project

\* ------------------------------------------------------------------ C28
\* C28: every document that parse_project_markdown returns has its eight
\* fields non-empty.
C28_AllFieldsNonEmpty ==
    (parser.pc \in {"parsed", "reparsed"} /\ parser.result.ok) =>
        LET d == parser.result.project
        IN /\ d.raw_markdown # <<>> /\ d.topic # ""
           /\ d.goal # <<>> /\ d.description # <<>> /\ d.input_data # <<>>
           /\ d.expected_output # <<>> /\ d.expert_solution # <<>> /\ d.autotest # <<>>

\* ------------------------------------------------------------------ C29
\* the content of the autotest section of the text given to the parser
C29_AutotestSection ==
    LET sections == ParseMarkdownHeaders(
                        StripConversationalText(UnwrapOuterMarkdownBlock(parser.text)))
    IN FoundContent(NormalizedMap(sections, 1, <<>>), "autotest").content

\* the section holds a fenced block tagged python or py, in any case
C29_HasPythonBlock ==
    LET blocks == BlocksFrom(C29_AutotestSection, 1, FenceScanStart, <<>>)
    IN \E k \in 1..Len(blocks) : Lower(blocks[k].b_lang) \in {"python", "py"}

\* C29: a text whose other sections are in order is accepted exactly when
\* its autotest section holds at least one fenced block tagged python or
\* py; otherwise the parse fails on the autotest section, naming the
\* language found when there is a block.
C29_AutotestNeedsPythonBlock ==
    (parser.pc \in {"parsed", "rejected"}
     /\ (parser.result.ok \/ parser.result.error \in
            {"Code block not found in autotest", "Autotest must be Python"})) =>
        /\ parser.result.ok <=> C29_HasPythonBlock
        /\ parser.result.error = "Autotest must be Python" =>
              parser.result.got = FindFirstFencedBlock(C29_AutotestSection).lang

\* ------------------------------------------------------------------ C27
\* the elements that are not a number between 0 and 1 inclusive
C27_Offending ==
    { k \in 1..Len(parser.text) :
        ~(parser.text[k].type = "number"
          /\ 0 <= parser.text[k].value /\ parser.text[k].value <= 10) }

\* C27: an array with an element that is not a number, or is a number
\* outside [0,1], is rejected with an error that names the index of the
\* first such element; an array of numbers in [0,1] is returned as it is.
C27_ScoresValidated ==
    parser.pc = "scored" =>
        IF C27_Offending = {}
        THEN /\ parser.result.ok
             /\ parser.result.scores = [k \in 1..Len(parser.text) |-> parser.text[k].value]
        ELSE /\ ~parser.result.ok
             /\ \A k \in C27_Offending : parser.result.index + 1 <= k
             /\ parser.result.index + 1 \in C27_Offending

\* ------------------------------------------------------------------ C30
\* the final VALIDATE of the run was entered after a CORRECT and said invalid
C30_RolledBack(i) ==
    /\ pc[i] = "returned"
    /\ Count(trace[i], "CORRECT") > 0
    /\ Last(AnswersTo(i, "VALIDATE")) = "invalid"
    /\ Len(AnswersTo(i, "VALIDATE")) = Count(trace[i], "CORRECT") + 1

\* C30 as stated: the snapshot is taken at every invalid VALIDATE, so while
\* CORRECT runs previous_version is the working exercise it is about to
\* replace, and a rollback after the failing final VALIDATE leaves the
\* exercise that preceded the most recent CORRECT (the last document but
\* one of the run).
C30_SnapshotEachInvalid ==
    \A i \in Slots :
        /\ pc[i] = "correct" => previous_version[i] = project[i]
        /\ C30_RolledBack(i) =>
              project[i].owner = i /\ project[i].n = docs[i] - 1

\* C30 amended: the snapshot is taken once, when GENERATE returned its
\* document, and no later step of the run changes it; while CORRECT runs
\* previous_version is that first document whatever the working exercise
\* is, and a rollback after the failing final VALIDATE leaves the first
\* document, however many corrections came between.
C30_SnapshotOnce ==
    /\ [](\A i \in Slots :
            /\ pc[i] = "correct" =>
                  previous_version[i].owner = i /\ previous_version[i].n = 1
            /\ C30_RolledBack(i) =>
                  /\ project[i] = previous_version[i]
                  /\ project[i].owner = i /\ project[i].n = 1)
    /\ [][\A i \in Slots : previous_version[i] # NoProject =>
            previous_version'[i] = previous_version[i]]_vars

\* two corrections were parsed and the final VALIDATE said invalid: the run
\* ends on document 1, not on document 2 that the second CORRECT replaced
C30_Witness ==
    \E i \in Slots :
        /\ C30_RolledBack(i) /\ cfgN = 2
        /\ Count(trace[i], "CORRECT") = 2 /\ docs[i] = 3
        /\ project[i].n = 1 /\ previous_version[i].n = 1

\* ------------------------------------------------------------------ C31
\* the pipelines that returned holding an exercise
C31_Kept == { i \in Pipes : pc[i] = "returned" /\ project[i] # NoProject }

\* C31: when execute has returned, topic2project holds one entry for every
\* pipeline that returned with an exercise, and the entries stand in the
\* order of their pipelines' topics in the topic list, whichever pipeline
\* finished first.
C31_ResultsInTopicOrder ==
    pc[0] = "done" =>
        /\ Len(topic2project) = Cardinality(C31_Kept)
        /\ \E slot \in [1..Len(topic2project) -> C31_Kept] :
              /\ \A j, k \in 1..Len(topic2project) : j < k => slot[j] < slot[k]
              /\ \A k \in 1..Len(topic2project) :
                    topic2project[k] = Topic2Project(topic[slot[k]], project[slot[k]])

\* both pipelines returned an exercise of their own, and the second had
\* saved its exercise before the first one looked the store up
C31_Witness ==
    /\ pc[0] = "done" /\ Len(topic2project) = 2
    /\ topic2project[1].project.owner = 1 /\ topic2project[2].project.owner = 2
    /\ \E k \in 1..Len(candidates[1]) : candidates[1][k].project.owner = 2

\* ------------------------------------------------------------------ C32
\* C32: no step of the validation stage changes the project, the topic, the
\* candidates or the execution result of the state it was given; called on
\* a state without a project it returns at once, having queried nothing and
\* changed nothing.
C32_ValidatorFrame ==
    [][\A i \in Slots : pc[i] \in {"call_validate", "validate_stage"} =>
          /\ project'[i] = project[i]
          /\ topic'[i] = topic[i]
          /\ candidates'[i] = candidates[i]
          /\ execution_result'[i] = execution_result[i]
          /\ project[i] = NoProject =>
                /\ pc'[i] = "stage_returned"
                /\ llmCalls'[i] = llmCalls[i]
                /\ validation_result'[i] = validation_result[i]]_vars

\* the validator returned a verdict on a state that held a project and a
\* candidate
C32_Witness ==
    /\ pc[1] = "stage_returned" /\ trace[1] = <<"VALIDATE">>
    /\ validation_result[1] = "invalid" /\ outcomes[1] = <<"invalid">>
    /\ project[1] = Project(1, 1, TRUE) /\ candidates[1] # <<>>

\* ------------------------------------------------------------------ C33
\* C33: when the task is cancelled while run waits for the subprocess, the
\* cancellation reaches the caller and nothing of that run is left running:
\* neither the docker client nor the program, and the container that
\* DockerPythonRunner started is removed.
C33_CancelReclaims ==
    sandbox.pc = "cancelled" =>
        /\ sandbox.error = "CancelledError"
        /\ sandbox.result = NoResult
        /\ sandbox.client # "running"
        /\ sandbox.program # "running"
        /\ sandbox.runner = "docker" => sandbox.container = "removed"

\* ------------------------------------------------------------------ C34
\* C34: every exercise handed to save is the document the most recent
\* VALIDATE of the run judged valid, that is the document GENERATE or the
\* last CORRECT produced, and validation_result says valid at that moment.
C34_SavedIsValidated ==
    \A i \in Slots : \A k \in 1..Len(saveLog[i]) :
        /\ saveLog[i][k].validation_result = "valid"
        /\ Last(AnswersTo(i, "VALIDATE")) = "valid"
        /\ saveLog[i][k].project.owner = i
        /\ saveLog[i][k].project.n = 1 + Count(AnswersTo(i, "CORRECT"), "parsed")

\* ------------------------------------------------------------------ C35
\* C35: a run that is about to save or has returned with an execution
\* result holds the exercise its last VERIFY ran on: the exercise is the
\* latest document of the run, the last VERIFY comes after every BUGFIX,
\* GENERATE and CORRECT, and whenever the exercise is replaced while a
\* result is held the autotest is run again (or the run ends raising).
C35_ResultIsOfCurrentExercise ==
    /\ [](\A i \in Slots :
            (pc[i] \in {"save", "returned"} /\ execution_result[i] # NoResult) =>
                /\ project[i].owner = i /\ project[i].n = docs[i]
                /\ \E k \in 1..Len(trace[i]) :
                      /\ trace[i][k] = "VERIFY"
                      /\ \A j \in (k + 1)..Len(trace[i]) : trace[i][j] = "SAVE")
    /\ [][\A i \in Slots :
            (execution_result[i] # NoResult /\ project'[i] # project[i]) =>
                pc'[i] = "reverify"]_vars

\* two bug fixes, each followed by a run of the autotest, then the return
C35_Witness ==
    \E i \in Slots :
        /\ pc[i] = "returned" /\ execution_result[i] # NoResult
        /\ Count(trace[i], "BUGFIX") = 2 /\ Count(trace[i], "VERIFY") = 3
        /\ project[i].n = docs[i]

\* ------------------------------------------------------------------ C36
\* C36: a result that a runner returns with timed_out = TRUE has exit code
\* 124, so a returned result with exit code 0 did not time out and passes.
C36_TimedOutIsNonZero ==
    sandbox.pc = "returned" =>
        /\ sandbox.result.timed_out =>
              sandbox.result.exit_code = 124 /\ sandbox.result.exit_code # 0
        /\ sandbox.result.exit_code = 0 =>
              ~sandbox.result.timed_out /\ Passing(sandbox.result)

\* the compose runner gave up on a program that never ends
C36_Witness ==
    /\ sandbox.pc = "returned" /\ sandbox.runner = "compose"
    /\ sandbox.code = "while True: pass"
    /\ sandbox.result.timed_out /\ sandbox.result.exit_code = 124

\* ------------------------------------------------------------------ C37
\* C37: when execute has returned, no two entries of topic2project carry
\* the same topic label.
C37_UniqueTopicsInResult ==
    pc[0] = "done" =>
        \A j, k \in 1..Len(topic2project) :
            topic2project[j].topic = topic2project[k].topic => j = k

C39_OutcomeIndependentOfInterleaving ==
    \A i \in Pipes : pc[i] = "returned" =>
        IF Adopted(i)
        THEN Topic2Project(topic[i], project[i]) \in PreStored
        ELSE project[i] = NoProject \/ project[i].owner = i

\* ------------------------------------------------------------------ C40
\* C40: when the autotest check of the reference solution or the check of
\* a learner's solution has returned for an exercise whose autotest lacks
\* the placeholder, the sandbox was not called and the state holds the
\* synthetic failing result with exit code 1.
C40_NoPlaceholderNeverRuns ==
    \A i \in Slots :
        ( /\ pc[i] = "stage_returned"
          /\ trace[i] \in {<<"VERIFY">>, <<"CHECK_USER_SOLUTION">>}
          /\ project[i] # NoProject /\ ~project[i].ph ) =>
            /\ sandboxRuns[i] = 0
            /\ execution_result[i].exit_code = 1
            /\ ~execution_result[i].timed_out

====
